---------------------------- MODULE Spec2Model ----------------------------
(***************************************************************************)
(* A model of the data pipeline of src/src/App.jsx: the value parser       *)
(* (parseNumericValue), the coordinate normalizer                          *)
(* (reprojectFeatureCollectionIfNeeded), the side-table loader of the      *)
(* map's load handler (parseCSVLine, pred3PEMap), its census block (the    *)
(* feature classifier, getRangeStats, the color expressions of             *)
(* addCensusSourceAndLayers; also as src/unnamed/part_003 has them) and    *)
(* the popup of the project markers (MapboxPopup).                         *)
(*                                                                         *)
(* JavaScript strings are sequences of one-character strings.  JavaScript  *)
(* values are records tagged by k.  A finite number is the exact decimal   *)
(* m * 10^e (m an integer without trailing zeros): the binary rounding of  *)
(* a double is not modelled, its range (overflow to Infinity, underflow    *)
(* to 0) is.                                                               *)
(***************************************************************************)
EXTENDS Integers, Sequences, FiniteSets, TLC

VARIABLES
    value,        \* parseNumericValue: the argument
    parsed,       \* parseNumericValue: the value returned
    pnvPc,        \* "idle" | "call" | "done"
    rawGeojson,   \* reprojectFeatureCollectionIfNeeded: the argument
    reprojected,  \* reprojectFeatureCollectionIfNeeded: the value returned
    rpPc,         \* "idle" | "call" | "done"
    line,         \* parseCSVLine: the argument
    fields,       \* parseCSVLine: the array returned
    clPc,         \* "idle" | "call" | "done"
    csvResponse,  \* what fetch('/FL_CRE.csv') settles with
    pred3PEDataRef, \* pred3PEDataRef.current: normalized GEOID -> PRED3_PE
    csvWarned,    \* the catch block of the side-table loader has run
    csvPc,        \* "idle" | "fetch" | "done"
    variant,      \* the source file whose load handler runs: "App.jsx" | "part_003"
    censusResponse, \* what fetch('/femaindex.geojson') and response.json() settle with
    censusDataRef,  \* censusDataRef.current
    censusStatsRef, \* censusStatsRef.current
    censusStats,  \* the state censusStats
    statsEffect,  \* the effect on censusStats is due to run
    censusSource, \* the data of the map's source 'census-tracts'
    censusLayers, \* the census layers on the map, by id
    censusEventsBoundRef, \* censusEventsBoundRef.current
    censusLayersReady,    \* the state censusLayersReady
    censusFailed, \* the catch block of the census block has run
    censusPc,     \* "idle" | "fetch" | "done"
    censusViewRef,    \* censusViewRef.current
    censusVisibleRef, \* censusVisibleRef.current
    allMarkers,   \* the features of the project markers on the map
    activeFeature,  \* the state activeFeature
    popupOnMap,   \* the feature whose details the popup on the map shows, or null
    popupEffect,  \* the effect of MapboxPopup on activeFeature is due to run
    gesture,      \* the last thing the user did to a marker or to the popup
    popupPc,      \* "idle" | "ready"
    loading,      \* the state loading
    error,        \* the state error
    projectResponse, \* what fetch('/project_inventory_database.geojson') settles with
    projectPc,    \* the load handler: "idle" | "load" | "fetch" | "done"
    districtsResponse, \* what fetch('/miami_cities.geojson') settles with
    districtsRef, \* districtsRef.current: the district identifiers it has as keys
    districtsPc,  \* loadDistricts: "idle" | "fetch" | "done"
    districtSources, \* the district sources on the map, by district identifier
    districtLayers,  \* the district layers on the map: <<district, "fill" | "outline">>
    districtListeners, \* listeners of the map on district fill layers, counted
    zoomCalls,    \* calls of zoomToDistrict made by the last click on a district
    isSatelliteView, \* the state isSatelliteView
    styledataOnce,   \* callbacks of map.once('styledata') waiting for the event
    censusVisible,   \* the state censusVisible
    activeCensusView, \* the state activeCensusView
    rendered,     \* the states as of the last render whose effects have run
    hoveredCensusIdRef, \* hoveredCensusIdRef.current
    featureState, \* identifiers of source 'census-tracts' whose feature state has hover = true
    censusListeners, \* listeners of the map on census layers, counted
    mapErrors     \* what the map has rejected: adding what is present, styling what is absent

pnvVars == <<value, parsed, pnvPc>>
rpVars == <<rawGeojson, reprojected, rpPc>>
clVars == <<line, fields, clPc>>
csvVars == <<csvResponse, pred3PEDataRef, csvWarned, csvPc>>
censusVars ==
    <<variant, censusResponse, censusDataRef, censusStatsRef, censusStats, statsEffect,
      censusSource, censusLayers, censusEventsBoundRef, censusLayersReady, censusFailed,
      censusPc, censusViewRef, censusVisibleRef>>
popupVars == <<allMarkers, activeFeature, popupOnMap, popupEffect, gesture, popupPc>>
loadVars == <<loading, error, projectResponse, projectPc>>
districtVars ==
    <<districtsResponse, districtsRef, districtsPc, districtSources, districtLayers,
      districtListeners, zoomCalls>>
styleVars == <<isSatelliteView, styledataOnce>>
uiVars == <<censusVisible, activeCensusView, rendered, hoveredCensusIdRef, featureState>>
mapVars == <<censusListeners, mapErrors>>
vars ==
    <<pnvVars, rpVars, clVars, csvVars, censusVars, popupVars,
      loadVars, districtVars, styleVars, uiVars, mapVars>>

---------------------------------------------------------------------------
(* Bounds of the model.                                                    *)

\* Longest enumerated string handed to parseNumericValue.
MaxStrLen == 5

---------------------------------------------------------------------------
(* JavaScript values.                                                      *)

Null == [k |-> "null"]
Undefined == [k |-> "undefined"]
NaN == [k |-> "nan"]
Infinity == [k |-> "inf", sgn |-> 1]
NegInfinity == [k |-> "inf", sgn |-> -1]
Num(m, e) == [k |-> "num", m |-> m, e |-> e]
Str(s) == [k |-> "str", s |-> s]

Abs(n) == IF n < 0 THEN -n ELSE n

RECURSIVE Pow10(_)
Pow10(n) == IF n = 0 THEN 1 ELSE 10 * Pow10(n - 1)

RECURSIVE NumDigits(_)
\* The number of decimal digits of a natural number (1 for 0).
NumDigits(n) == IF n < 10 THEN 1 ELSE 1 + NumDigits(n \div 10)

RECURSIVE StripZeros(_, _)
\* m * 10^e with the trailing zeros of m moved into the exponent.
StripZeros(m, e) ==
    IF m = 0 THEN Num(0, 0)
    ELSE IF m % 10 = 0 THEN StripZeros(m \div 10, e + 1)
    ELSE Num(m, e)

\* The double nearest to sign * m * 10^e, m a natural of at most 9 digits.
\* Number.MAX_VALUE is 1.7976931348623157e308: a decimal of at most nine
\* significant digits overflows to Infinity iff it is at least 1.79769314e308.
\* Number.MIN_VALUE is 5e-324: anything below 1e-324 rounds to 0.
ToDouble(sign, m, e) ==
    LET n == StripZeros(m, e)
        order == NumDigits(n.m) + n.e - 1
        lead9 == n.m * Pow10(9 - NumDigits(n.m))
    IN  IF n.m = 0 THEN Num(0, 0)
        ELSE IF order > 308 \/ (order = 308 /\ lead9 > 179769313)
             THEN [k |-> "inf", sgn |-> sign]
        ELSE IF order < -324 THEN Num(0, 0)
        ELSE Num(sign * n.m, n.e)

\* typeof v === 'number'
IsNumber(v) == v.k \in {"num", "nan", "inf"}
\* Number.isFinite(v)
IsFinite(v) == v.k = "num"
\* isNaN(v), v a number
IsNaN(v) == v.k = "nan"

---------------------------------------------------------------------------
(* Strings.                                                                *)

Digit == {"0", "1", "2", "3", "4", "5", "6", "7", "8", "9"}

DigitVal(c) ==
    CASE c = "0" -> 0 [] c = "1" -> 1 [] c = "2" -> 2 [] c = "3" -> 3
      [] c = "4" -> 4 [] c = "5" -> 5 [] c = "6" -> 6 [] c = "7" -> 7
      [] c = "8" -> 8 [] c = "9" -> 9

\* White space and line terminators, as String.prototype.trim sees them.
WhiteSpace == {" ", "\t", "\n", "\r"}

RECURSIVE TrimStart(_)
TrimStart(s) ==
    IF s # <<>> /\ Head(s) \in WhiteSpace THEN TrimStart(Tail(s)) ELSE s

RECURSIVE TrimEnd(_)
TrimEnd(s) ==
    IF s # <<>> /\ s[Len(s)] \in WhiteSpace
    THEN TrimEnd(SubSeq(s, 1, Len(s) - 1)) ELSE s

\* String.prototype.trim
Trim(s) == TrimEnd(TrimStart(s))

RECURSIVE DigitRun(_, _)
\* The number of consecutive digits of s from position i on.
DigitRun(s, i) ==
    IF i <= Len(s) /\ s[i] \in Digit THEN 1 + DigitRun(s, i + 1) ELSE 0

RECURSIVE DigitsValue(_)
\* The natural number a sequence of digits writes (0 for none).
DigitsValue(ds) ==
    IF ds = <<>> THEN 0
    ELSE 10 * DigitsValue(SubSeq(ds, 1, Len(ds) - 1)) + DigitVal(ds[Len(ds)])

InfinityLiteral == <<"I", "n", "f", "i", "n", "i", "t", "y">>

\* The parts of s read as a StrDecimalLiteral of ECMAScript:
\*   [+-] (Infinity | digits [. [digits]] | . digits) [(e|E) [+-] digits]
\* ok says whether the whole of s is one.
DecimalParts(s) ==
    LET signed == s # <<>> /\ Head(s) \in {"+", "-"}
        sign == IF signed /\ Head(s) = "-" THEN -1 ELSE 1
        u == IF signed THEN Tail(s) ELSE s
        n1 == DigitRun(u, 1)
        dot == n1 + 1 <= Len(u) /\ u[n1 + 1] = "."
        n2 == IF dot THEN DigitRun(u, n1 + 2) ELSE 0
        q == n1 + 1 + (IF dot THEN 1 + n2 ELSE 0)
        hasExp == q <= Len(u) /\ u[q] \in {"e", "E"}
        expSigned == hasExp /\ q + 1 <= Len(u) /\ u[q + 1] \in {"+", "-"}
        expSign == IF expSigned /\ u[q + 1] = "-" THEN -1 ELSE 1
        r == q + 1 + (IF expSigned THEN 1 ELSE 0)
        n3 == IF hasExp THEN DigitRun(u, r) ELSE 0
        mant == DigitsValue(SubSeq(u, 1, n1)) * Pow10(n2)
                    + (IF dot THEN DigitsValue(SubSeq(u, n1 + 2, n1 + 1 + n2)) ELSE 0)
        exp == IF hasExp THEN expSign * DigitsValue(SubSeq(u, r, r + n3 - 1)) ELSE 0
    IN  IF u = InfinityLiteral
        THEN [ok |-> TRUE, val |-> [k |-> "inf", sgn |-> sign]]
        ELSE IF n1 + n2 >= 1
                /\ (IF hasExp THEN n3 >= 1 /\ r + n3 = Len(u) + 1 ELSE q = Len(u) + 1)
             THEN [ok |-> TRUE, val |-> ToDouble(sign, mant, exp - n2)]
        ELSE [ok |-> FALSE, val |-> NaN]

\* Number(s), s a string: white space is trimmed, the empty string is 0, a
\* StrDecimalLiteral is its value and anything else is NaN.  (The hex, octal
\* and binary literals need a letter x, o or b.)
StringToNumber(s) ==
    LET t == Trim(s)
    IN  IF t = <<>> THEN Num(0, 0) ELSE DecimalParts(t).val

\* String(v) for the values that reach it in parseNumericValue: a string is
\* itself, and the three non-finite numbers have fixed names.
JSString(v) ==
    CASE v.k = "str" -> v.s
      [] v.k = "nan" -> <<"N", "a", "N">>
      [] v.k = "inf" /\ v.sgn = 1 -> InfinityLiteral
      [] v.k = "inf" /\ v.sgn = -1 -> <<"-">> \o InfinityLiteral

\* The characters /[^0-9eE.+-]/g leaves in place.
KeptChar == Digit \cup {"e", "E", ".", "+", "-"}

RECURSIVE RemoveOtherChars(_, _)
\* s.replace(/[^...]/g, ''), the class being the characters not in keep.
RemoveOtherChars(s, keep) ==
    IF s = <<>> THEN <<>>
    ELSE (IF Head(s) \in keep THEN <<Head(s)>> ELSE <<>>)
             \o RemoveOtherChars(Tail(s), keep)

\* const cleaned = String(value).replace(/[^0-9eE.+-]/g, '')
Cleaned(v) == RemoveOtherChars(JSString(v), KeptChar)

\* parseNumericValue without the final Number.isFinite test.
parseNumericValue_Unchecked(v) ==
    IF v = Null \/ v = Undefined THEN Null
    ELSE IF IsNumber(v) /\ IsFinite(v) THEN v
    ELSE StringToNumber(Cleaned(v))

\* parseNumericValue(value)
parseNumericValue(v) ==
    IF v = Null \/ v = Undefined THEN Null
    ELSE IF IsNumber(v) /\ IsFinite(v) THEN v
    ELSE LET p == StringToNumber(Cleaned(v))
         IN  IF IsFinite(p) THEN p ELSE Null

---------------------------------------------------------------------------
(* The value parser applied to one scalar.                                 *)

Alphabet == {"a", "e", "$", "1", "9", ".", "-"}

RECURSIVE StringsUpTo(_, _)
StringsUpTo(chars, n) ==
    IF n = 0 THEN {<<>>}
    ELSE LET shorter == StringsUpTo(chars, n - 1)
         IN  shorter \cup {Append(s, c) : s \in shorter, c \in chars}

\* The spec's examples: "$1,234.56", "12.5%", "abc".
ExampleStrings ==
    { <<"$", "1", ",", "2", "3", "4", ".", "5", "6">>,
      <<"1", "2", ".", "5", "%">>,
      <<"a", "b", "c">>,
      <<" ", "4", "2", " ">> }

\* The scalars whose enumerated strings have at most n characters.
Scalars(n) ==
    {Null, Undefined, NaN, Infinity, NegInfinity, Num(0, 0), Num(125, -1), Num(-3, 0)}
        \cup {Str(s) : s \in StringsUpTo(Alphabet, n) \cup ExampleStrings}

CallParseNumericValue ==
    /\ pnvPc = "call"
    /\ parsed' = parseNumericValue(value)
    /\ pnvPc' = "done"
    /\ UNCHANGED <<value, rpVars, clVars, csvVars, censusVars, popupVars, loadVars, districtVars, styleVars, uiVars, mapVars>>

---------------------------------------------------------------------------
(* The coordinate normalizer.                                              *)
(*                                                                         *)
(* A coordinate component is an integer count of tenths (of a degree, or   *)
(* of a metre for projected input): -802 is -80.2.  A coordinates value is *)
(* null, a position Pos(<<x, y>>) or Pos(<<x, y, z>>) (an array whose      *)
(* first two elements are numbers) or an array Arr(<<...>>) of coordinates *)
(* values.  Every other array is an Arr too: features is Arr(<<...>>).     *)

Pos(p) == [k |-> "pos", p |-> p]
Arr(a) == [k |-> "arr", a |-> a]

\* Array.isArray(coords)
IsArray(coords) == coords.k \in {"pos", "arr"}
\* typeof coords[0] === 'number' && typeof coords[1] === 'number'
IsPair(coords) == coords.k = "pos"

\* (x / originShift) * 180 with originShift = 20037508.34, in tenths and
\* truncated towards zero: 180 / 20037508.34 is 9 / 1001875.4.
MercatorLon(x) ==
    (IF x < 0 THEN -1 ELSE 1) * ((Abs(x) * 9) \div 1001875)

\* (180 / PI) * (2 * atan(exp(((y / originShift) * 180) * PI / 180)) - PI / 2)
\* in tenths and truncated towards zero, at the ordinates the model uses:
\* 2957000.0 m is 25.6597 degrees; 0.0 to 90.1 m are below 0.001 degrees.
MercatorLat(y) ==
    CASE y = 29570000 -> 256
      [] y \in {0, 257, 900, 901} -> 0

\* toWgs84Coordinate([x, y]): the array returned has two elements.
toWgs84Coordinate(p) == <<MercatorLon(p[1]), MercatorLat(p[2])>>

\* transformToWgs84 without its recursion: nested arrays are left alone.
transformToWgs84_Flat(coords) ==
    IF ~IsArray(coords) THEN coords
    ELSE IF IsPair(coords) THEN Pos(toWgs84Coordinate(coords.p))
    ELSE coords

RECURSIVE transformToWgs84_OrEmpty(_)
\* transformToWgs84 mapping over (coords || []): null becomes an empty array.
transformToWgs84_OrEmpty(coords) ==
    IF ~IsArray(coords) THEN Arr(<<>>)
    ELSE IF IsPair(coords) THEN Pos(toWgs84Coordinate(coords.p))
    ELSE Arr([i \in 1 .. Len(coords.a) |-> transformToWgs84_OrEmpty(coords.a[i])])

RECURSIVE transformToWgs84(_)
transformToWgs84(coords) ==
    IF ~IsArray(coords) THEN coords
    ELSE IF IsPair(coords) THEN Pos(toWgs84Coordinate(coords.p))
    ELSE Arr([i \in 1 .. Len(coords.a) |-> transformToWgs84(coords.a[i])])

RECURSIVE traverse(_)
\* The positions traverse hands to the callback, in order.
traverse(coords) ==
    IF ~IsArray(coords) THEN <<>>
    ELSE IF IsPair(coords) THEN <<coords.p>>
    ELSE LET RECURSIVE Each(_)
             Each(i) == IF i > Len(coords.a) THEN <<>>
                        ELSE traverse(coords.a[i]) \o Each(i + 1)
         IN  Each(1)

\* Falsy values among those a geometry or its coordinates can be.
Falsy(v) == v = Null \/ v = Undefined

\* walkCoordinates(geometry, callback): the positions the callback is called with.
walkCoordinates(geometry) ==
    IF Falsy(geometry) \/ Falsy(geometry.coordinates) THEN <<>>
    ELSE traverse(geometry.coordinates)

\* feature?.geometry
FeatureGeometry(feature) ==
    IF Falsy(feature) THEN Undefined ELSE feature.geometry

RECURSIVE FirstCoordFrom(_, _)
\* The loop over featureCollection.features from index i on: firstCoord when
\* the loop ends (Null when no callback ran).
FirstCoordFrom(features, i) ==
    IF i > Len(features.a) THEN Null
    ELSE IF Falsy(FeatureGeometry(features.a[i])) THEN FirstCoordFrom(features, i + 1)
    ELSE LET seen == walkCoordinates(FeatureGeometry(features.a[i]))
         IN  IF seen # <<>> THEN Pos(seen[1]) ELSE FirstCoordFrom(features, i + 1)

\* The test with >= for >: a pair on the bounds counts as projected.
NeedsReprojection_Inclusive(firstCoord) ==
    Abs(firstCoord.p[1]) >= 1800 \/ Abs(firstCoord.p[2]) >= 900

\* Math.abs(firstCoord[0]) > 180 || Math.abs(firstCoord[1]) > 90
NeedsReprojection(firstCoord) ==
    Abs(firstCoord.p[1]) > 1800 \/ Abs(firstCoord.p[2]) > 900

\* !featureCollection?.features?.length
HasNoFeatures(fc) ==
    \/ Falsy(fc)
    \/ Falsy(fc.features)
    \/ Len(fc.features.a) = 0

\* The callback of features.map in the reprojecting branch.
ReprojectFeature(feature) ==
    IF Falsy(FeatureGeometry(feature)) THEN feature
    ELSE [feature EXCEPT !.geometry =
             [@ EXCEPT !.coordinates = transformToWgs84(@)]]

\* reprojectFeatureCollectionIfNeeded(featureCollection).  same says that
\* the value returned is the argument itself, not a new object.
reprojectFeatureCollectionIfNeeded(fc) ==
    IF HasNoFeatures(fc) THEN [same |-> TRUE, fc |-> fc]
    ELSE LET firstCoord == FirstCoordFrom(fc.features, 1)
         IN  IF firstCoord = Null THEN [same |-> TRUE, fc |-> fc]
             ELSE IF ~NeedsReprojection(firstCoord) THEN [same |-> TRUE, fc |-> fc]
             ELSE [same |-> FALSE,
                   fc |-> [fc EXCEPT !.features =
                              Arr([i \in 1 .. Len(fc.features.a) |->
                                      ReprojectFeature(fc.features.a[i])])]]

---------------------------------------------------------------------------
(* The normalizer applied to one collection.                               *)

\* Most features of an enumerated collection.
MaxFeatures == 2

\* Miami in degrees, the corner of the geographic bounds, Miami in metres
\* (without and with an altitude), a point east of the projected world,
\* and a latitude just out of bounds.
Positions ==
    { <<-802, 257>>, <<1800, 900>>, <<-89300000, 29570000>>,
      <<-89300000, 29570000, 50>>, <<220000000, 0>>, <<0, 901>> }

Geometry(type, coordinates) ==
    [k |-> "geometry", type |-> type, coordinates |-> coordinates]

Geometries ==
    {Geometry("Point", Pos(p)) : p \in Positions}
        \cup {Geometry("LineString", Arr(<<Pos(p), Pos(q)>>)) : p, q \in Positions}
        \cup {Geometry("Polygon", Arr(<<Arr(<<Pos(p)>>)>>)) : p \in Positions}
        \cup {Geometry("MultiPolygon", Arr(<<Arr(<<Arr(<<Pos(p)>>)>>)>>)) : p \in Positions}
        \cup {Geometry("Polygon", Arr(<<>>)), Geometry("Polygon", Arr(<<Arr(<<>>)>>)),
              Geometry("Point", Null)}

Feature(geometry) ==
    [k |-> "feature", properties |-> [NAME |-> "tract"], geometry |-> geometry]

Features == {Null} \cup {Feature(g) : g \in Geometries \cup {Null}}

RECURSIVE SeqsUpTo(_, _)
SeqsUpTo(S, n) ==
    IF n = 0 THEN {<<>>}
    ELSE LET shorter == SeqsUpTo(S, n - 1)
         IN  shorter \cup {Append(s, x) : s \in shorter, x \in S}

FeatureCollection(features) == [k |-> "fc", type |-> "FeatureCollection", features |-> features]

\* The collections of at most n features.
Collections(n) ==
    {Null, FeatureCollection(Undefined)}
        \cup {FeatureCollection(Arr(fs)) : fs \in SeqsUpTo(Features, n)}

CallReproject ==
    /\ rpPc = "call"
    /\ reprojected' = reprojectFeatureCollectionIfNeeded(rawGeojson)
    /\ rpPc' = "done"
    /\ UNCHANGED <<rawGeojson, pnvVars, clVars, csvVars, censusVars, popupVars, loadVars, districtVars, styleVars, uiVars, mapVars>>

---------------------------------------------------------------------------
(* The side-table loader: FL_CRE.csv into pred3PEDataRef.                  *)

RECURSIVE SplitFrom(_, _, _)
\* s.split(sep) continued: cur is the piece being read.
SplitFrom(s, sep, cur) ==
    IF s = <<>> THEN <<cur>>
    ELSE IF Head(s) = sep THEN <<cur>> \o SplitFrom(Tail(s), sep, <<>>)
    ELSE SplitFrom(Tail(s), sep, Append(cur, Head(s)))

\* csvText.split('\n').filter(line => line.trim())
NonBlank(l) == Trim(l) # <<>>
Lines(csvText) == SelectSeq(SplitFrom(csvText, "\n", <<>>), NonBlank)

\* The test without !inQuotes: every comma ends the field.
IsFieldEnd_AnyComma(char, inQuotes) == char = ","

\* char === ',' && !inQuotes
IsFieldEnd(char, inQuotes) == char = "," /\ ~inQuotes

RECURSIVE ParseCSVFrom(_, _, _, _, _)
\* The loop of parseCSVLine from index i (1-based) on, and its last push.
ParseCSVFrom(l, i, result, current, inQuotes) ==
    IF i > Len(l) THEN Append(result, Trim(current))
    ELSE LET char == l[i]
         IN  IF char = "\""
             THEN ParseCSVFrom(l, i + 1, result, current, ~inQuotes)
             ELSE IF IsFieldEnd(char, inQuotes)
             THEN ParseCSVFrom(l, i + 1, Append(result, Trim(current)), <<>>, inQuotes)
             ELSE ParseCSVFrom(l, i + 1, result, Append(current, char), inQuotes)

\* parseCSVLine(line)
parseCSVLine(l) == ParseCSVFrom(l, 1, <<>>, <<>>, FALSE)

\* array.indexOf(x): the first 0-based index of x, or -1.
IndexOf(array, x) ==
    LET at == {i \in 1 .. Len(array) : array[i] = x}
    IN  IF at = {} THEN -1
        ELSE (CHOOSE i \in at : \A j \in at : i <= j) - 1

\* array.at(index) for array[index]: a negative index counts from the end.
ElementAt_FromEnd(array, index) ==
    IF index >= 0 /\ index < Len(array) THEN Str(array[index + 1])
    ELSE IF index < 0 /\ -index <= Len(array) THEN Str(array[Len(array) + index + 1])
    ELSE Undefined

\* array[index], index 0-based: undefined outside the array.
ElementAt(array, index) ==
    IF index >= 0 /\ index < Len(array) THEN Str(array[index + 1]) ELSE Undefined

\* v?.trim(), v a string or undefined
OptionalTrim(v) == IF v = Undefined THEN Undefined ELSE Str(Trim(v.s))

Max(a, b) == IF a >= b THEN a ELSE b

\* parseFloat(v): the value of the longest prefix of the string, leading
\* white space skipped, that is a StrDecimalLiteral; NaN when there is none
\* and for undefined.
parseFloat(v) ==
    IF v = Undefined THEN NaN
    ELSE LET t == TrimStart(v.s)
             ok == {n \in 1 .. Len(t) : DecimalParts(SubSeq(t, 1, n)).ok}
         IN  IF ok = {} THEN NaN
             ELSE DecimalParts(SubSeq(t, 1, CHOOSE n \in ok : \A o \in ok : o <= n)).val

GEO_ID == <<"G", "E", "O", "_", "I", "D">>
PRED3_PE == <<"P", "R", "E", "D", "3", "_", "P", "E">>
GeoIdPrefix == <<"1", "4", "0", "0", "0", "0", "0", "U", "S">>

RECURSIVE ReplaceFirst(_, _)
\* s.replace(pattern, ''), pattern a string: its first occurrence is removed.
ReplaceFirst(s, pattern) ==
    IF Len(s) < Len(pattern) THEN s
    ELSE IF SubSeq(s, 1, Len(pattern)) = pattern
    THEN SubSeq(s, Len(pattern) + 1, Len(s))
    ELSE <<Head(s)>> \o ReplaceFirst(Tail(s), pattern)

\* A non-empty string is truthy; undefined and '' are not.
Truthy(v) == v # Undefined /\ v.s # <<>>

\* pred3PEMap[geoid] = pred3PE
Assign(map, key, val) ==
    [x \in DOMAIN map \cup {key} |-> IF x = key THEN val ELSE map[x]]

\* {}
EmptyMap == [x \in {} |-> Null]

\* The body of the loop over the data rows for one row.
AddRow(map, row, geoIdIndex, pred3PEIndex) ==
    IF ~NonBlank(row) THEN map
    ELSE LET values == parseCSVLine(row)
         IN  IF ~(Len(values) > Max(geoIdIndex, pred3PEIndex)) THEN map
             ELSE LET geoId == OptionalTrim(ElementAt(values, geoIdIndex))
                      pred3PE == parseFloat(OptionalTrim(ElementAt(values, pred3PEIndex)))
                  IN  IF Truthy(geoId) /\ ~IsNaN(pred3PE)
                      THEN Assign(map, ReplaceFirst(geoId.s, GeoIdPrefix), pred3PE)
                      ELSE map

RECURSIVE AddRows(_, _, _, _, _)
\* for (let i = 1; i < lines.length; i++), i 0-based.
AddRows(map, lines, i, geoIdIndex, pred3PEIndex) ==
    IF ~(i < Len(lines)) THEN map
    ELSE AddRows(AddRow(map, lines[i + 1], geoIdIndex, pred3PEIndex),
                 lines, i + 1, geoIdIndex, pred3PEIndex)

\* pred3PEMap as built from the lines of the file; lines[0] is the header.
Pred3PEMap(lines) ==
    LET headers == parseCSVLine(lines[1])
    IN  AddRows(EmptyMap, lines, 1, IndexOf(headers, GEO_ID), IndexOf(headers, PRED3_PE))

\* The side-table block of the load handler, from the fetch to the end of
\* its try statement.  fetch rejects, or resolves with a response that is
\* ok or not; with no line at all parseCSVLine(lines[0]) reads the length of
\* undefined, and the TypeError is caught like a rejected fetch.
LoadSideTable ==
    /\ csvPc = "fetch"
    /\ csvPc' = "done"
    /\ IF csvResponse.outcome = "rejected"
       THEN csvWarned' = TRUE /\ UNCHANGED pred3PEDataRef
       ELSE IF csvResponse.outcome = "notOk"
       THEN UNCHANGED <<csvWarned, pred3PEDataRef>>
       ELSE IF Lines(csvResponse.text) = <<>>
       THEN csvWarned' = TRUE /\ UNCHANGED pred3PEDataRef
       ELSE /\ pred3PEDataRef' = Pred3PEMap(Lines(csvResponse.text))
            /\ UNCHANGED csvWarned
    /\ UNCHANGED <<csvResponse, pnvVars, rpVars, clVars, censusVars, popupVars, loadVars, districtVars, styleVars, uiVars, mapVars>>

\* parseCSVLine called on one line.
CallParseCSVLine ==
    /\ clPc = "call"
    /\ fields' = parseCSVLine(line)
    /\ clPc' = "done"
    /\ UNCHANGED <<line, pnvVars, rpVars, csvVars, censusVars, popupVars, loadVars, districtVars, styleVars, uiVars, mapVars>>

---------------------------------------------------------------------------
(* The lines and the files the loader is run on.                           *)

\* Longest enumerated line handed to parseCSVLine.
MaxLineLen == 5
\* Most data rows of an enumerated file.
MaxRows == 2

LineAlphabet == {"\"", ",", "a", " "}

\* The spec's example: "Miami, FL",42
MiamiLine ==
    <<"\"", "M", "i", "a", "m", "i", ",", " ", "F", "L", "\"", ",", "4", "2">>

\* The lines of at most n enumerated characters.
CsvLines(n) == StringsUpTo(LineAlphabet, n) \cup {MiamiLine}

NAME == <<"N", "A", "M", "E">>
Comma == <<",">>
Quoted(s) == <<"\"">> \o s \o <<"\"">>

HeaderLines ==
    { GEO_ID \o Comma \o PRED3_PE,
      PRED3_PE \o Comma \o GEO_ID,
      Quoted(GEO_ID) \o Comma \o Quoted(PRED3_PE),
      GEO_ID \o Comma \o NAME,
      NAME \o Comma \o PRED3_PE,
      NAME }

\* Identifier cells: a prefixed tract, the bare prefix, nothing.
IdCells == {GeoIdPrefix \o <<"1", "2">>, GeoIdPrefix, <<>>}

\* Value cells: 3.14, abc, 3abc, Infinity, nothing.
ValueCells ==
    { <<"3", ".", "1", "4">>, <<"a", "b", "c">>, <<"3", "a", "b", "c">>,
      InfinityLiteral, <<>> }

\* A data row: two cells, bare or quoted; one cell only; a blank line.
DataRows ==
    {id \o Comma \o v : id \in IdCells, v \in ValueCells}
        \cup {Quoted(GeoIdPrefix \o <<"1", "2">>) \o Comma \o Quoted(<<"3", ".", "1", "4">>),
              GeoIdPrefix \o <<"1", "2">>,
              <<" ", " ">>}

RECURSIVE JoinLines(_)
JoinLines(ls) ==
    IF ls = <<>> THEN <<>>
    ELSE IF Len(ls) = 1 THEN ls[1]
    ELSE ls[1] \o <<"\n">> \o JoinLines(Tail(ls))

\* The files of a header line and at most n data rows, and the empty file.
CsvTexts(n) ==
    {<<>>} \cup {JoinLines(<<h>> \o rows) : h \in HeaderLines, rows \in SeqsUpTo(DataRows, n)}

CsvResponses(n) ==
    {[outcome |-> "rejected", text |-> <<>>], [outcome |-> "notOk", text |-> <<>>]}
        \cup {[outcome |-> "ok", text |-> t] : t \in CsvTexts(n)}

---------------------------------------------------------------------------
(* Arithmetic on numbers, for the summary statistics.                      *)
(*                                                                         *)
(* A sum is exact when its operands, written with the smaller of their     *)
(* exponents, have at most eight digits each; otherwise the operand of     *)
(* the greater order absorbs the other, as it does in a double when the    *)
(* orders are more than sixteen digits apart.  The numbers of the model    *)
(* are either of the first kind or of the second.  The result goes through *)
(* ToDouble: a sum beyond Number.MAX_VALUE is Infinity.                    *)

Min(a, b) == IF a <= b THEN a ELSE b

\* The order of magnitude of a finite number other than 0.
Order(v) == NumDigits(Abs(v.m)) + v.e - 1

\* The first nine digits of a finite number other than 0.
Lead9(v) == Abs(v.m) * Pow10(9 - NumDigits(Abs(v.m)))

Sign(v) ==
    IF v.k = "inf" THEN v.sgn
    ELSE IF v.m > 0 THEN 1 ELSE IF v.m < 0 THEN -1 ELSE 0

\* |a| < |b|, a and b finite and not 0
MagnitudeLess(a, b) ==
    Order(a) < Order(b) \/ (Order(a) = Order(b) /\ Lead9(a) < Lead9(b))

\* a < b, a and b numbers other than NaN
Less(a, b) ==
    IF a = b THEN FALSE
    ELSE IF a.k = "inf" THEN a.sgn = -1
    ELSE IF b.k = "inf" THEN b.sgn = 1
    ELSE IF Sign(a) # Sign(b) THEN Sign(a) < Sign(b)
    ELSE IF Sign(a) = 1 THEN MagnitudeLess(a, b)
    ELSE MagnitudeLess(b, a)

\* a <= b
LessEq(a, b) == a = b \/ Less(a, b)

\* -a
Negate(a) ==
    IF a.k = "inf" THEN [a EXCEPT !.sgn = -a.sgn] ELSE [a EXCEPT !.m = -a.m]

\* a + b, never Infinity + -Infinity
Plus(a, b) ==
    IF a.k = "inf" THEN a
    ELSE IF b.k = "inf" THEN b
    ELSE IF a.m = 0 THEN b
    ELSE IF b.m = 0 THEN a
    ELSE LET e == Min(a.e, b.e)
             s == a.m * Pow10(a.e - e) + b.m * Pow10(b.e - e)
         IN  IF Max(Order(a), Order(b)) - e <= 7
             THEN ToDouble(IF s < 0 THEN -1 ELSE 1, Abs(s), e)
             ELSE IF Order(a) > Order(b) THEN a ELSE b

\* a - b
Minus(a, b) == Plus(a, Negate(b))

\* a / 2
Half(a) ==
    IF a.k = "inf" THEN a
    ELSE ToDouble(IF a.m < 0 THEN -1 ELSE 1, Abs(a.m) * 5, a.e - 1)

RECURSIVE MinOf(_)
\* Math.min(...values), values not empty
MinOf(values) ==
    IF Len(values) = 1 THEN values[1]
    ELSE LET rest == MinOf(Tail(values))
         IN  IF Less(rest, Head(values)) THEN rest ELSE Head(values)

RECURSIVE MaxOf(_)
\* Math.max(...values), values not empty
MaxOf(values) ==
    IF Len(values) = 1 THEN values[1]
    ELSE LET rest == MaxOf(Tail(values))
         IN  IF Less(Head(values), rest) THEN rest ELSE Head(values)

\* getRangeStats(values)
getRangeStats(values) ==
    IF Len(values) = 0 THEN [min |-> Null, mid |-> Null, max |-> Null]
    ELSE LET min == MinOf(values)
             max == MaxOf(values)
         IN  [min |-> min, mid |-> Plus(min, Half(Minus(max, min))), max |-> max]

---------------------------------------------------------------------------
(* The feature classifier of the load handler: femaindex.geojson into      *)
(* censusDataRef and the statistics payload.                               *)
(*                                                                         *)
(* An object is Obj(p), p a function from its own property names to their  *)
(* values.  A tract identifier is a string of digits: no name inherited    *)
(* from Object.prototype is one.                                           *)

Obj(p) == [k |-> "obj", p |-> p]

\* {}
EmptyObject == Obj([x \in {} |-> Null])

\* object[name]
Property(object, name) ==
    IF name \in DOMAIN object.p THEN object.p[name] ELSE Undefined

\* { ...object, ...more }
Spread(object, more) ==
    Obj([x \in DOMAIN object.p \cup DOMAIN more.p |->
            IF x \in DOMAIN more.p THEN more.p[x] ELSE object.p[x]])

\* The truth value of v in a condition.
ToBoolean(v) ==
    CASE v.k \in {"null", "undefined", "nan"} -> FALSE
      [] v.k = "num" -> v.m # 0
      [] v.k = "str" -> v.s # <<>>
      [] OTHER -> TRUE

\* a || b
Or(a, b) == IF ToBoolean(a) THEN a ELSE b

\* a ?? b
Coalesce(a, b) == IF a = Null \/ a = Undefined THEN b ELSE a

RiskRatingKey == "T_FEMA_National_Risk_Index_$_.FEMAIndexRating"
RiskIndexKey == "T_FEMA_National_Risk_Index_$_.FEMAIndex"
PopulationKey ==
    "T_CENSUS_Community_Resilience_Est$_.Total_population__excludes_adult_correctional_juvenile_facilitie"
GeoidKey == "L0Census_Tracts.GEOID"

\* The lookup answering 0 for a tract the side table does not have.
SideTableEntry_OrZero(sideTable, geoid) ==
    IF geoid.s \in DOMAIN sideTable THEN sideTable[geoid.s] ELSE Num(0, 0)

\* pred3PEDataRef.current[geoid], geoid a string
SideTableEntry(sideTable, geoid) ==
    IF geoid.s \in DOMAIN sideTable THEN sideTable[geoid.s] ELSE Undefined

\* The identifier with || for ??: 0 and '' count as missing.
FeatureId_Truthy(feature, geoid, index) ==
    Or(feature.id, Or(geoid, Num(index, 0)))

\* feature.id ?? geoid ?? index, index counted from 0
FeatureId(feature, geoid, index) ==
    Coalesce(feature.id, Coalesce(geoid, Num(index, 0)))

\* The callback of features.map in App.jsx for one feature.
ProcessFeature(feature, index, sideTable) ==
    LET properties == Spread(Or(feature.properties, EmptyObject), EmptyObject)
        riskRating == Or(Property(properties, RiskRatingKey), Null)
        populationValue == parseNumericValue(Property(properties, PopulationKey))
        geoid == Property(properties, GeoidKey)
        pred3PE == IF ToBoolean(geoid) THEN SideTableEntry(sideTable, geoid) ELSE Null
    IN  [feature EXCEPT
            !.id = FeatureId(feature, geoid, index),
            !.properties =
                Spread(properties,
                       Obj([x \in {"__riskRating", "__population", "__pred3PE"} |->
                               CASE x = "__riskRating" -> riskRating
                                 [] x = "__population" -> populationValue
                                 [] x = "__pred3PE" ->
                                        IF pred3PE # Null /\ pred3PE # Undefined
                                        THEN pred3PE ELSE Null]))]

\* The same callback in part_003: the risk index, and no side table.
ProcessFeatureRiskIndex(feature, index) ==
    LET properties == Spread(Or(feature.properties, EmptyObject), EmptyObject)
        riskValue == parseNumericValue(Property(properties, RiskIndexKey))
        populationValue == parseNumericValue(Property(properties, PopulationKey))
    IN  [feature EXCEPT
            !.id = FeatureId(feature, Property(properties, GeoidKey), index),
            !.properties =
                Spread(properties,
                       Obj([x \in {"__riskIndex", "__population"} |->
                               IF x = "__riskIndex" THEN riskValue ELSE populationValue]))]

\* (reprojected.features || []) as a sequence
FeaturesOrEmpty(fc) == IF Falsy(fc.features) THEN <<>> ELSE fc.features.a

\* A call of the callback reads feature.properties: it throws on a feature
\* that is null.
MapThrows(fc) == \E i \in 1 .. Len(FeaturesOrEmpty(fc)) : Falsy(FeaturesOrEmpty(fc)[i])

\* processedFeatures without the features that have no properties.
ProcessedFeatures_SkipBare(fc, sideTable) ==
    SelectSeq([i \in 1 .. Len(FeaturesOrEmpty(fc)) |->
                  ProcessFeature(FeaturesOrEmpty(fc)[i], i - 1, sideTable)],
              LAMBDA f : DOMAIN f.properties.p # {"__riskRating", "__population", "__pred3PE"})

\* processedFeatures of App.jsx
ProcessedFeatures(fc, sideTable) ==
    [i \in 1 .. Len(FeaturesOrEmpty(fc)) |->
        ProcessFeature(FeaturesOrEmpty(fc)[i], i - 1, sideTable)]

\* processedFeatures of part_003
ProcessedFeaturesRiskIndex(fc) ==
    [i \in 1 .. Len(FeaturesOrEmpty(fc)) |->
        ProcessFeatureRiskIndex(FeaturesOrEmpty(fc)[i], i - 1)]

\* processedFeatures.map(feature => feature.properties[name])
Column(features, name) == [i \in 1 .. Len(features) |-> features[i].properties.p[name]]

\* value => value !== null && value !== undefined
NotNullish(v) == v # Null /\ v # Undefined

\* value => Number.isFinite(value)
IsFiniteNumber(v) == IsNumber(v) /\ IsFinite(v)

RECURSIVE Unique(_)
\* [...new Set(values)]: the first occurrence of each value, in order
Unique(values) ==
    IF values = <<>> THEN <<>>
    ELSE LET front == Unique(SubSeq(values, 1, Len(values) - 1))
             last == values[Len(values)]
         IN  IF \E i \in 1 .. Len(front) : front[i] = last THEN front
             ELSE Append(front, last)

\* statsPayload of App.jsx
StatsPayload(processedFeatures) ==
    LET riskRatings == SelectSeq(Column(processedFeatures, "__riskRating"), NotNullish)
        populationValues == SelectSeq(Column(processedFeatures, "__population"), IsFiniteNumber)
        pred3PEValues ==
            SelectSeq(Column(processedFeatures, "__pred3PE"),
                      LAMBDA v : NotNullish(v) /\ IsFiniteNumber(v))
    IN  [risk |-> [ratings |-> Arr(Unique(riskRatings)), count |-> Len(riskRatings)],
         population |-> getRangeStats(populationValues),
         pred3PE |-> getRangeStats(pred3PEValues),
         counts |-> [total |-> Len(processedFeatures),
                     missingRisk |-> Len(processedFeatures) - Len(riskRatings),
                     missingPopulation |-> Len(processedFeatures) - Len(populationValues),
                     missingPred3PE |-> Len(processedFeatures) - Len(pred3PEValues)]]

\* statsPayload of part_003
StatsPayloadRiskIndex(processedFeatures) ==
    LET riskValues == SelectSeq(Column(processedFeatures, "__riskIndex"), IsFiniteNumber)
        populationValues == SelectSeq(Column(processedFeatures, "__population"), IsFiniteNumber)
    IN  [risk |-> getRangeStats(riskValues),
         population |-> getRangeStats(populationValues),
         counts |-> [total |-> Len(processedFeatures),
                     missingRisk |-> Len(processedFeatures) - Len(riskValues),
                     missingPopulation |-> Len(processedFeatures) - Len(populationValues)]]

---------------------------------------------------------------------------
(* The color expressions of addCensusSourceAndLayers, and what the map     *)
(* makes of them for one feature.                                          *)

Color(hex) == [k |-> "color", hex |-> hex]
\* A color between two stops of an interpolation.
Mix(from, to) == [k |-> "mix", from |-> from, to |-> to]

Literal(v) == [op |-> "literal", value |-> v]
Get(name) == [op |-> "get", name |-> name]
\* ['==', ['typeof', ['get', name]], 'number']
IsNumberTest(name) ==
    [op |-> "==", left |-> [op |-> "typeof", arg |-> Get(name)], right |-> Literal("number")]
\* ['case', test, out, ..., fallback]
Case(branches, fallback) == [op |-> "case", branches |-> branches, fallback |-> fallback]
Branch(test, out) == [test |-> test, out |-> out]
\* ['interpolate', ['linear'], input, at, out, ...]
Interpolate(input, stops) == [op |-> "interpolate", input |-> input, stops |-> stops]
Stop(at, hex) == [at |-> at, out |-> Color(hex)]

VeryLow == Str(<<"V", "e", "r", "y", " ", "L", "o", "w">>)
RelativelyLow ==
    Str(<<"R", "e", "l", "a", "t", "i", "v", "e", "l", "y", " ", "L", "o", "w">>)
RelativelyModerate ==
    Str(<<"R", "e", "l", "a", "t", "i", "v", "e", "l", "y", " ",
          "M", "o", "d", "e", "r", "a", "t", "e">>)
RelativelyHigh ==
    Str(<<"R", "e", "l", "a", "t", "i", "v", "e", "l", "y", " ", "H", "i", "g", "h">>)
VeryHigh == Str(<<"V", "e", "r", "y", " ", "H", "i", "g", "h">>)

\* Object.entries(riskRatingColors)
riskRatingColors ==
    << <<VeryLow, "#4CAF50">>, <<RelativelyLow, "#8BC34A">>,
       <<RelativelyModerate, "#FFC107">>, <<RelativelyHigh, "#FF6F00">>,
       <<VeryHigh, "#B71C1C">> >>

\* The expression with the colors of the palette in the reverse order.
buildRiskRatingColorExpression_Reversed ==
    Case([i \in 1 .. Len(riskRatingColors) |->
             Branch([op |-> "==", left |-> Get("__riskRating"),
                     right |-> Literal(riskRatingColors[i][1])],
                    Literal(Color(riskRatingColors[Len(riskRatingColors) + 1 - i][2])))],
         Literal(Color("#9e9e9e")))

\* buildRiskRatingColorExpression()
buildRiskRatingColorExpression ==
    Case([i \in 1 .. Len(riskRatingColors) |->
             Branch([op |-> "==", left |-> Get("__riskRating"),
                     right |-> Literal(riskRatingColors[i][1])],
                    Literal(Color(riskRatingColors[i][2])))],
         Literal(Color("#9e9e9e")))

\* a * (q / 100), q one of 25, 50, 75
Percent(a, q) ==
    IF a.k = "inf" THEN a
    ELSE ToDouble(IF a.m < 0 THEN -1 ELSE 1, Abs(a.m) * q, a.e - 2)

\* buildPred3PEColorExpression(), stats being censusStatsRef.current
buildPred3PEColorExpression(stats) ==
    LET pred3PEStats == stats.pred3PE
        span == Minus(pred3PEStats.max, pred3PEStats.min)
    IN  IF pred3PEStats.min = Null \/ pred3PEStats.max = Null
        THEN Case(<<Branch(IsNumberTest("__pred3PE"), Literal(Color("#9e9e9e")))>>,
                  Literal(Color("#9e9e9e")))
        ELSE IF pred3PEStats.min = pred3PEStats.max
        THEN Case(<<Branch(IsNumberTest("__pred3PE"), Literal(Color("#4CAF50")))>>,
                  Literal(Color("#9e9e9e")))
        ELSE Case(<<Branch(IsNumberTest("__pred3PE"),
                           Interpolate(Get("__pred3PE"),
                               <<Stop(pred3PEStats.min, "#4CAF50"),
                                 Stop(Plus(pred3PEStats.min, Percent(span, 25)), "#8BC34A"),
                                 Stop(Plus(pred3PEStats.min, Percent(span, 50)), "#FFC107"),
                                 Stop(Plus(pred3PEStats.min, Percent(span, 75)), "#FF6F00"),
                                 Stop(pred3PEStats.max, "#B71C1C")>>))>>,
                  Literal(Color("#9e9e9e")))

\* The palettes of part_003.
riskColors == [min |-> "#66BB6A", mid |-> "#FF9800", max |-> "#C62828", single |-> "#FF9800"]
populationColors ==
    [min |-> "#fff9c4", mid |-> "#00ACC1", max |-> "#0D47A1", single |-> "#00ACC1"]

\* buildColorExpression with palette.single in the place of the fallback.
buildColorExpression_SingleForAll(rangeStats, propertyName, palette) ==
    IF rangeStats.min = Null \/ rangeStats.max = Null \/ rangeStats.min = rangeStats.max
    THEN Case(<<Branch(IsNumberTest(propertyName), Literal(Color(palette.single)))>>,
              Literal(Color(palette.single)))
    ELSE Case(<<Branch(IsNumberTest(propertyName),
                       Interpolate(Get(propertyName),
                           <<Stop(rangeStats.min, palette.min),
                             Stop(rangeStats.mid, palette.mid),
                             Stop(rangeStats.max, palette.max)>>))>>,
              Literal(Color("#9e9e9e")))

\* buildColorExpression(rangeStats, propertyName, palette) of part_003
buildColorExpression(rangeStats, propertyName, palette) ==
    IF rangeStats.min = Null \/ rangeStats.max = Null
    THEN Case(<<Branch(IsNumberTest(propertyName), Literal(Color(palette.single)))>>,
              Literal(Color("#9e9e9e")))
    ELSE IF rangeStats.min = rangeStats.max
    THEN Case(<<Branch(IsNumberTest(propertyName), Literal(Color(palette.single)))>>,
              Literal(Color("#9e9e9e")))
    ELSE Case(<<Branch(IsNumberTest(propertyName),
                       Interpolate(Get(propertyName),
                           <<Stop(rangeStats.min, palette.min),
                             Stop(rangeStats.mid, palette.mid),
                             Stop(rangeStats.max, palette.max)>>))>>,
              Literal(Color("#9e9e9e")))

\* ['typeof', v] in the map's expression language
TypeOf(v) ==
    CASE IsNumber(v) -> "number"
      [] v.k = "str" -> "string"
      [] v.k \in {"null", "undefined"} -> "null"
      [] OTHER -> "object"

\* The stop of an interpolation a number falls on, or the two it lies
\* between; numbers outside the stops take the nearest one.
InterpolateAt(stops, x) ==
    LET n == Len(stops)
    IN  IF LessEq(x, stops[1].at) THEN stops[1].out
        ELSE IF LessEq(stops[n].at, x) THEN stops[n].out
        ELSE LET i == CHOOSE j \in 1 .. n - 1 :
                          LessEq(stops[j].at, x) /\ Less(x, stops[j + 1].at)
             IN  IF x = stops[i].at THEN stops[i].out
                 ELSE Mix(stops[i].out, stops[i + 1].out)

RECURSIVE Evaluate(_, _)
\* The value of an expression for a feature with the given properties.
Evaluate(expr, properties) ==
    CASE expr.op = "literal" -> expr.value
      [] expr.op = "get" -> Coalesce(Property(properties, expr.name), Null)
      [] expr.op = "typeof" -> TypeOf(Evaluate(expr.arg, properties))
      [] expr.op = "==" ->
             Evaluate(expr.left, properties) = Evaluate(expr.right, properties)
      [] expr.op = "case" ->
             LET taken == {i \in 1 .. Len(expr.branches) :
                              Evaluate(expr.branches[i].test, properties)}
             IN  IF taken = {} THEN Evaluate(expr.fallback, properties)
                 ELSE Evaluate(expr.branches[CHOOSE i \in taken :
                                   \A j \in taken : i <= j].out, properties)
      [] expr.op = "interpolate" ->
             InterpolateAt(expr.stops, Evaluate(expr.input, properties))

\* The fill color the map paints a feature of the source with.
FillColor(layer, feature) == Evaluate(layer.fillColor, feature.properties)

---------------------------------------------------------------------------
(* The census block of the load handler and the effect on censusStats.     *)

CensusLayerIds == {"census-tracts-risk", "census-tracts-pred3pe", "census-tracts-outline"}

\* Every layer visible.
Visibility_Always(shown) == "visible"

\* view === name && isVisible ? 'visible' : 'none'
Visibility(shown) == IF shown THEN "visible" ELSE "none"

\* The three layers as addCensusSourceAndLayers of App.jsx adds or updates
\* them: a layer already on the map keeps its place and takes the new
\* fill-color and visibility.
AppLayers(stats, view, isVisible) ==
    [id \in CensusLayerIds |->
        CASE id = "census-tracts-risk" ->
                 [type |-> "fill", fillColor |-> buildRiskRatingColorExpression,
                  visibility |-> Visibility(view = "risk" /\ isVisible)]
          [] id = "census-tracts-pred3pe" ->
                 [type |-> "fill", fillColor |-> buildPred3PEColorExpression(stats),
                  visibility |-> Visibility(view = "pred3pe" /\ isVisible)]
          [] id = "census-tracts-outline" ->
                 [type |-> "line", visibility |-> Visibility(isVisible)]]

Part003LayerIds ==
    {"census-tracts-risk", "census-tracts-population", "census-tracts-outline"}

\* The three layers of addCensusSourceAndLayers of part_003.
Part003Layers(stats, view, isVisible) ==
    [id \in Part003LayerIds |->
        CASE id = "census-tracts-risk" ->
                 [type |-> "fill",
                  fillColor |-> buildColorExpression(stats.risk, "__riskIndex", riskColors),
                  visibility |-> Visibility(view = "risk" /\ isVisible)]
          [] id = "census-tracts-population" ->
                 [type |-> "fill",
                  fillColor |->
                      buildColorExpression(stats.population, "__population", populationColors),
                  visibility |-> Visibility(view = "population" /\ isVisible)]
          [] id = "census-tracts-outline" ->
                 [type |-> "line", visibility |-> Visibility(isVisible)]]

\* No layer on the map.
NoLayers == [id \in {} |-> Null]

\* No district layer on the map.
NoDistrictLayers == [key \in {} |-> "none"]

\* map.getSource('census-tracts'), as a condition.
HasSource(source) == source # Null

\* map.getLayer(id), as a condition.
HasLayer(layers, id) == id \in DOMAIN layers

\* map.addLayer(layer): the map keeps the layer it has under the id and
\* reports the second one.
AddLayer(layers, id, layer) ==
    IF id \in DOMAIN layers THEN layers ELSE layers @@ (id :> layer)

\* What the map reports when asked to add what it has already.
Exists(id) == [error |-> "exists", source |-> "census-tracts", layer |-> id]

\* The layers after the three if statements of addCensusSourceAndLayers:
\* a layer the map lacks is added, one it has takes the fill-color and the
\* visibility (a line layer: the visibility).
EnsureLayers(layers, desired) ==
    [id \in DOMAIN layers \cup DOMAIN desired |->
        IF id \notin DOMAIN desired THEN layers[id]
        ELSE IF HasLayer(layers, id) THEN desired[id]
        ELSE AddLayer(layers, id, desired[id])[id]]

\* The complaints of the map about these if statements and the one on the
\* source before them.
EnsureErrors(source, layers, desired) ==
    {Exists(id) : id \in {i \in DOMAIN desired : ~HasLayer(layers, i) /\ i \in DOMAIN layers}}
        \cup (IF ~HasSource(source) /\ source # Null THEN {Exists("census-tracts")} ELSE {})

CensusEventTypes == {"click", "mouseenter", "mousemove", "mouseleave"}

\* The fill layers the handlers are registered on (censusLayerIds).
CensusFillLayerIds ==
    IF variant = "App.jsx"
    THEN {"census-tracts-risk", "census-tracts-pred3pe"}
    ELSE {"census-tracts-risk", "census-tracts-population"}

\* No listener on any layer.
NoListeners == [key \in {} |-> 0]

\* The listeners after map.on(type, layerId, handler) for each of keys.
On(listeners, keys) ==
    [key \in DOMAIN listeners \cup keys |->
        (IF key \in DOMAIN listeners THEN listeners[key] ELSE 0)
            + (IF key \in keys THEN 1 ELSE 0)]

\* Binds the handlers whatever censusEventsBoundRef says.
BindCensusEvents_Always(listeners, bound) ==
    On(listeners, CensusEventTypes \X CensusFillLayerIds)

\* if (!censusEventsBoundRef.current) { censusLayerIds.forEach(...) }
BindCensusEvents(listeners, bound) ==
    IF bound THEN listeners
    ELSE On(listeners, CensusEventTypes \X CensusFillLayerIds)

\* The layers addCensusSourceAndLayers wants on the map, censusViewRef and
\* censusVisibleRef holding view and isVisible.
DesiredLayers(stats, view, isVisible) ==
    IF variant = "App.jsx"
    THEN AppLayers(stats, view, isVisible)
    ELSE Part003Layers(stats, view, isVisible)

\* addCensusSourceAndLayers(), the refs holding data, stats, view and
\* isVisible, on a map that has source and layers: the source takes the
\* data, the layers are added or updated, the handlers are bound once and
\* censusLayersReady is set.  With censusDataRef or censusStatsRef empty
\* it returns at once.
AddCensusSourceAndLayersTo(source, layers, data, stats, view, isVisible) ==
    IF data = Null \/ stats = Null
    THEN /\ censusSource' = source
         /\ censusLayers' = layers
         /\ UNCHANGED <<censusEventsBoundRef, censusLayersReady, mapVars>>
    ELSE /\ censusSource' = data
         /\ censusLayers' = EnsureLayers(layers, DesiredLayers(stats, view, isVisible))
         /\ mapErrors' =
                mapErrors \cup EnsureErrors(source, layers, DesiredLayers(stats, view, isVisible))
         /\ censusListeners' = BindCensusEvents(censusListeners, censusEventsBoundRef)
         /\ censusEventsBoundRef' = TRUE
         /\ censusLayersReady' = TRUE

\* addCensusSourceAndLayers() on the map and with the refs as they are.
AddCensusSourceAndLayers(data, stats) ==
    AddCensusSourceAndLayersTo(censusSource, censusLayers, data, stats,
                               censusViewRef, censusVisibleRef)

\* The catch block of the census block, had it declared the layers ready.
CensusThrows_Ready ==
    /\ censusFailed' = TRUE
    /\ censusLayersReady' = TRUE
    /\ UNCHANGED <<censusDataRef, censusStatsRef, censusStats, statsEffect,
                   censusSource, censusLayers, censusEventsBoundRef, mapVars>>

\* The catch block of the census block.
CensusThrows ==
    /\ censusFailed' = TRUE
    /\ UNCHANGED <<censusDataRef, censusStatsRef, censusStats, statsEffect,
                   censusSource, censusLayers, censusEventsBoundRef, censusLayersReady,
                   mapVars>>

\* The end of the try block: the refs and the state take the results and
\* the layers are added.
PublishCensus(processedGeojson, statsPayload) ==
    /\ censusDataRef' = processedGeojson
    /\ censusStatsRef' = statsPayload
    /\ censusStats' = statsPayload
    /\ statsEffect' = TRUE
    /\ AddCensusSourceAndLayers(processedGeojson, statsPayload)
    /\ UNCHANGED censusFailed

\* const processedGeojson = { ...reprojected, features: processedFeatures }
ProcessedGeojson(reprojectedFc, processedFeatures) ==
    [reprojectedFc EXCEPT !.features = Arr(processedFeatures)]

\* The try block of App.jsx from features.map on.
ClassifyCensus(reprojectedFc) ==
    IF MapThrows(reprojectedFc) THEN CensusThrows
    ELSE PublishCensus(
             ProcessedGeojson(reprojectedFc, ProcessedFeatures(reprojectedFc, pred3PEDataRef)),
             StatsPayload(ProcessedFeatures(reprojectedFc, pred3PEDataRef)))

\* The try block of part_003 from features.map on.
ClassifyCensusRiskIndex(reprojectedFc) ==
    IF MapThrows(reprojectedFc) THEN CensusThrows
    ELSE PublishCensus(
             ProcessedGeojson(reprojectedFc, ProcessedFeaturesRiskIndex(reprojectedFc)),
             StatsPayloadRiskIndex(ProcessedFeaturesRiskIndex(reprojectedFc)))

\* The census block of the load handler of App.jsx, from the fetch to the
\* end of its try statement; it is reached when the side-table block is
\* over.  A fetch that rejects, a response that is not ok, a body that is
\* not a collection and a feature that is null all end in the catch block.
LoadCensus ==
    /\ variant = "App.jsx"
    /\ csvPc = "done"
    /\ censusPc = "fetch"
    /\ censusPc' = "done"
    /\ IF censusResponse.outcome # "ok" \/ Falsy(censusResponse.body)
       THEN CensusThrows
       ELSE ClassifyCensus(reprojectFeatureCollectionIfNeeded(censusResponse.body).fc)
    /\ UNCHANGED <<variant, censusResponse, censusViewRef, censusVisibleRef,
                   pnvVars, rpVars, clVars, csvVars, popupVars, loadVars, districtVars, styleVars, uiVars>>

\* The census block of the load handler of part_003, which has no
\* side-table block before it.
LoadCensusRiskIndex ==
    /\ variant = "part_003"
    /\ censusPc = "fetch"
    /\ censusPc' = "done"
    /\ IF censusResponse.outcome # "ok" \/ Falsy(censusResponse.body)
       THEN CensusThrows
       ELSE ClassifyCensusRiskIndex(
                reprojectFeatureCollectionIfNeeded(censusResponse.body).fc)
    /\ UNCHANGED <<variant, censusResponse, censusViewRef, censusVisibleRef,
                   pnvVars, rpVars, clVars, csvVars, popupVars, loadVars, districtVars, styleVars, uiVars>>

\* useEffect(..., [censusStats, censusLayersReady, addCensusSourceAndLayers]),
\* run after the render that follows setCensusStats or setCensusLayersReady.
CensusStatsEffect ==
    /\ statsEffect
    /\ statsEffect' = FALSE
    /\ IF censusStats # Null
       THEN /\ censusStatsRef' = censusStats
            /\ IF censusLayersReady
               THEN AddCensusSourceAndLayers(censusDataRef, censusStats)
               ELSE UNCHANGED <<censusSource, censusLayers, censusEventsBoundRef,
                                censusLayersReady, mapVars>>
       ELSE UNCHANGED <<censusStatsRef, censusSource, censusLayers,
                        censusEventsBoundRef, censusLayersReady, mapVars>>
    /\ UNCHANGED <<variant, censusResponse, censusDataRef, censusStats, censusFailed,
                   censusPc, censusViewRef, censusVisibleRef,
                   pnvVars, rpVars, clVars, csvVars, popupVars, loadVars, districtVars, styleVars, uiVars>>

---------------------------------------------------------------------------
(* The collections and side tables the census block is run on.             *)

Tract(id, properties, geometry) ==
    [k |-> "feature", id |-> id, properties |-> properties, geometry |-> geometry]

\* The properties of a tract; a property given as undefined is not there.
TractProperties(rating, riskIndex, population, geoid) ==
    LET all == [x \in {RiskRatingKey, RiskIndexKey, PopulationKey, GeoidKey} |->
                   CASE x = RiskRatingKey -> rating
                     [] x = RiskIndexKey -> riskIndex
                     [] x = PopulationKey -> population
                     [] x = GeoidKey -> geoid]
    IN  Obj([x \in {y \in DOMAIN all : all[y] # Undefined} |-> all[x]])

TractPolygon == Geometry("Polygon", Arr(<<Arr(<<Pos(<<-802, 257>>)>>)>>))
ProjectedPoint == Geometry("Point", Pos(<<-89300000, 29570000>>))

Severe == Str(<<"S", "e", "v", "e", "r", "e">>)
Tract12 == Str(<<"1", "2">>)
Tract34 == Str(<<"3", "4">>)

\* Tracts with every property, with some and with none; ratings in and out
\* of the palette, empty and 0; populations written "1,234", "abc",
\* "1e308" and "-1e308"; identifiers that are and are not in the side table.
Tracts ==
    { Tract(Undefined, Null, TractPolygon),
      Tract(Undefined, EmptyObject, Null),
      Tract(Undefined,
            TractProperties(VeryHigh, Num(125, -1), Str(<<"1", ",", "2", "3", "4">>), Tract12),
            TractPolygon),
      Tract(Undefined,
            TractProperties(VeryLow, Str(<<"9", "9", ".", "5">>),
                            Str(<<"-", "1", "e", "3", "0", "8">>), Tract34),
            TractPolygon),
      Tract(Num(0, 0),
            TractProperties(VeryLow, Num(1, 308), Str(<<"1", "e", "3", "0", "8">>), Tract12),
            ProjectedPoint),
      Tract(Str(<<"t">>),
            TractProperties(Str(<<>>), Num(-1, 308), Str(<<"a", "b", "c">>), Str(<<>>)),
            TractPolygon),
      Tract(Null, TractProperties(Num(0, 0), Undefined, Undefined, Undefined), TractPolygon),
      Tract(Undefined, TractProperties(Severe, Null, Num(42, 0), Tract34), TractPolygon),
      Tract(Undefined, TractProperties(Null, Null, Null, Null), TractPolygon),
      Tract(Undefined, TractProperties(VeryHigh, Undefined, Undefined, Undefined),
            TractPolygon),
      Null }

\* What response.json() gives: nothing, an object without features, or a
\* collection of at most n tracts.
CensusBodies(n) ==
    {Null, FeatureCollection(Undefined)}
        \cup {FeatureCollection(Arr(fs)) : fs \in SeqsUpTo(Tracts, n)}

CensusResponses(n) ==
    {[outcome |-> "rejected", body |-> Null], [outcome |-> "notOk", body |-> Null]}
        \cup {[outcome |-> "ok", body |-> b] : b \in CensusBodies(n)}

TableHeader == GEO_ID \o Comma \o PRED3_PE
Row12 == GeoIdPrefix \o <<"1", "2">> \o Comma \o <<"3", ".", "1", "4">>

\* The side tables: the three ways of failing, and files with a row for
\* tract 12 alone or with a second row for tract 34.
SideTableResponses ==
    { [outcome |-> "rejected", text |-> <<>>],
      [outcome |-> "notOk", text |-> <<>>],
      [outcome |-> "ok", text |-> <<>>],
      [outcome |-> "ok", text |-> JoinLines(<<TableHeader, Row12>>)],
      [outcome |-> "ok",
       text |-> JoinLines(<<TableHeader, Row12,
                            GeoIdPrefix \o <<"3", "4">> \o Comma \o <<"-", "1", ".", "5">>>>)],
      [outcome |-> "ok",
       text |-> JoinLines(<<TableHeader, Row12,
                            GeoIdPrefix \o <<"3", "4">> \o Comma \o InfinityLiteral>>)] }

---------------------------------------------------------------------------
(* The popup of the project markers: the click listener of a marker and    *)
(* the MapboxPopup component.                                              *)

\* Most project markers on the map.
MaxProjects == 4

\* The feature of the n-th project of project_inventory_database.geojson.
Project(n) ==
    [k |-> "feature", properties |-> Obj([x \in {"Project Name"} |-> Num(n, 0)]),
     geometry |-> Geometry("Point", Pos(<<-802 + n, 257>>))]

Projects(n) == {Project(i) : i \in 1 .. n}

\* marker.getElement().addEventListener('click', () => setActiveFeature(feature)):
\* a state equal to the current one schedules no render and no effect.
ClickMarker(feature) ==
    /\ popupPc = "ready"
    /\ gesture' = [kind |-> "click", feature |-> feature]
    /\ IF activeFeature = feature
       THEN UNCHANGED <<activeFeature, popupEffect>>
       ELSE activeFeature' = feature /\ popupEffect' = TRUE
    /\ UNCHANGED <<popupOnMap, popupPc, allMarkers,
                   pnvVars, rpVars, clVars, csvVars, censusVars, loadVars, districtVars, styleVars, uiVars, mapVars>>

\* The close button of the popup: the popup removes itself from the map.
ClosePopup ==
    /\ popupPc = "ready"
    /\ popupOnMap # Null
    /\ gesture' = [kind |-> "close", feature |-> popupOnMap]
    /\ popupOnMap' = Null
    /\ UNCHANGED <<activeFeature, popupEffect, popupPc, allMarkers,
                   pnvVars, rpVars, clVars, csvVars, censusVars, loadVars, districtVars, styleVars, uiVars, mapVars>>

\* The render that follows setActiveFeature and the effect of MapboxPopup
\* on [map, activeFeature]: the portal holds the details of activeFeature
\* and the popup takes them as its HTML.
PopupEffect ==
    /\ popupPc = "ready"
    /\ popupEffect
    /\ popupEffect' = FALSE
    /\ popupOnMap' =
           IF activeFeature = Null THEN Null
           ELSE IF Falsy(activeFeature.geometry) \/ Falsy(activeFeature.geometry.coordinates)
           THEN popupOnMap
           ELSE activeFeature
    /\ UNCHANGED <<activeFeature, gesture, popupPc, allMarkers,
                   pnvVars, rpVars, clVars, csvVars, censusVars, loadVars, districtVars, styleVars, uiVars, mapVars>>

NextPopup ==
    \/ \E feature \in allMarkers : ClickMarker(feature)
    \/ ClosePopup
    \/ PopupEffect

---------------------------------------------------------------------------
(* The load handler of the map: the initialization effect of App.jsx and   *)
(* of part_000, from loadDistricts to the project block.                   *)

\* Most districts in miami_cities.geojson.
MaxDistricts == 2

\* What fetch('/miami_cities.geojson') and response.json() settle with: a
\* rejection, a body that is not JSON, or a collection of districts, given
\* by their OBJECTIDs.
DistrictsResponses(n) ==
    {[outcome |-> "rejected", ids |-> <<>>], [outcome |-> "notJson", ids |-> <<>>]}
        \cup {[outcome |-> "ok", ids |-> SubSeq(<<"1", "2", "3", "4">>, 1, m)] : m \in 0 .. n}

\* loadDistricts(): districtsRef.current takes the districts of the
\* collection; a failure is caught and leaves it as it was.
LoadDistricts ==
    /\ districtsPc = "fetch"
    /\ districtsPc' = "done"
    /\ districtsRef' =
           IF districtsResponse.outcome = "ok"
           THEN {districtsResponse.ids[i] : i \in 1 .. Len(districtsResponse.ids)}
           ELSE districtsRef
    /\ UNCHANGED <<districtsResponse, districtSources, districtLayers, districtListeners,
                   zoomCalls, pnvVars, rpVars, clVars, csvVars, censusVars, popupVars,
                   loadVars, styleVars, uiVars, mapVars>>

\* The text of an error state.
Message(text) == [k |-> "message", text |-> text]

DistrictEventTypes == {"click", "mouseenter", "mouseleave"}

\* The fill and the outline layer of each of districts, visible as a layer
\* added without a layout is.
DistrictLayersOf(districts) ==
    [key \in districts \X {"fill", "outline"} |-> "visible"]

\* The district layers after map.addLayer for each layer of more that the
\* map lacks.
AddDistrictLayers(layers, more) ==
    [key \in DOMAIN layers \cup DOMAIN more |->
        IF key \in DOMAIN layers THEN layers[key] ELSE more[key]]

\* The catch block of the city block, had it left the loading on.
AppCityBlock_StillLoading ==
    /\ error' = Message("Error initializing map")
    /\ UNCHANGED <<loading, districtSources, districtLayers, districtListeners>>

\* The city block of the load handler of App.jsx.  Its statements name
\* districtId and district, which no enclosing scope declares: evaluating
\* the arguments of the first call throws a ReferenceError, and the catch
\* block sets the error and ends the loading.
AppCityBlock ==
    /\ error' = Message("Error initializing map")
    /\ loading' = FALSE
    /\ UNCHANGED <<districtSources, districtLayers, districtListeners>>

\* The district block of the load handler of part_000: a source, two
\* layers and three listeners for each key of districtsRef.current.
Part000DistrictBlock ==
    /\ districtSources' = districtSources \cup districtsRef
    /\ districtLayers' = AddDistrictLayers(districtLayers, DistrictLayersOf(districtsRef))
    /\ districtListeners' = On(districtListeners, DistrictEventTypes \X districtsRef)
    /\ UNCHANGED <<error, loading>>

\* The map's load event: the handler runs to its first await, the fetch of
\* the projects.
MapLoad ==
    /\ projectPc = "load"
    /\ projectPc' = "fetch"
    /\ IF variant = "App.jsx" THEN AppCityBlock ELSE Part000DistrictBlock
    /\ UNCHANGED <<projectResponse, districtsResponse, districtsRef, districtsPc, zoomCalls,
                   pnvVars, rpVars, clVars, csvVars, censusVars, popupVars,
                   styleVars, uiVars, mapVars>>

\* The collection of the first n projects.
ProjectBody(n) == FeatureCollection(Arr([i \in 1 .. n |-> Project(i)]))

\* What fetch('/project_inventory_database.geojson') and response.json()
\* settle with: a rejection, a status that is not ok, an object without
\* features, or a collection of at most n projects.
ProjectResponses(n) ==
    {[outcome |-> "rejected", body |-> Null], [outcome |-> "notOk", body |-> Null],
     [outcome |-> "ok", body |-> FeatureCollection(Undefined)]}
        \cup {[outcome |-> "ok", body |-> ProjectBody(m)] : m \in 0 .. n}

\* The try block of the project block throws: the fetch rejects, the
\* status is not ok, or data.features is not there to iterate.
ProjectThrows(response) ==
    response.outcome # "ok" \/ Falsy(response.body) \/ Falsy(response.body.features)

\* part_000 calls fitBounds with the bounds of the features whatever they
\* are (App.jsx asks bounds.isEmpty() first): that call is handed empty
\* bounds when there is no feature.
FitsEmptyBounds(response) ==
    variant = "part_000" /\ ~ProjectThrows(response) /\ response.body.features.a = <<>>

\* The catch block of the project block, had it left the loading on.
ProjectFailed_StillLoading ==
    /\ error' = Message("Unable to load project data. Please ensure the GeoJSON file is available or use a CORS proxy.")
    /\ UNCHANGED loading

\* The catch block of the project block.
ProjectFailed ==
    /\ error' = Message("Unable to load project data. Please ensure the GeoJSON file is available or use a CORS proxy.")
    /\ loading' = FALSE

\* The project block of the load handler, from the fetch on: the markers
\* of the features go on the map and the loading ends; a failure sets the
\* error and ends the loading.  fitBounds may or may not throw on empty
\* bounds.  In App.jsx the side-table block comes next.
LoadProjects ==
    /\ projectPc = "fetch"
    /\ projectPc' = "done"
    /\ IF ProjectThrows(projectResponse)
       THEN ProjectFailed /\ UNCHANGED allMarkers
       ELSE /\ allMarkers' =
                   allMarkers \cup {projectResponse.body.features.a[i] :
                                       i \in 1 .. Len(projectResponse.body.features.a)}
            /\ \/ loading' = FALSE /\ UNCHANGED error
               \/ FitsEmptyBounds(projectResponse) /\ ProjectFailed
    /\ csvPc' = IF variant = "App.jsx" THEN "fetch" ELSE csvPc
    /\ UNCHANGED <<projectResponse, csvResponse, pred3PEDataRef, csvWarned,
                   activeFeature, popupOnMap, popupEffect, gesture, popupPc,
                   pnvVars, rpVars, clVars, censusVars,
                   districtVars, styleVars, uiVars, mapVars>>

---------------------------------------------------------------------------
(* The map-style toggle and the district layers.                           *)
(*                                                                         *)
(* map.setStyle replaces the style: when the new style is in place the     *)
(* sources and layers the program had added, and the feature states of     *)
(* its sources, are gone, and the styledata event runs the callbacks       *)
(* registered with map.once.  The listeners registered with map.on and     *)
(* the markers belong to the map, not to its style, and stay.              *)

\* Most style toggles the model follows: callbacks waiting plus listeners
\* on one layer.
MaxToggles == 2

\* The most listeners for one event on one district layer.
RECURSIVE MostListeners(_)
MostListeners(listeners) ==
    IF DOMAIN listeners = {} THEN 0
    ELSE LET key == CHOOSE k \in DOMAIN listeners : TRUE
             rest == MostListeners([k \in DOMAIN listeners \ {key} |-> listeners[k]])
         IN  IF listeners[key] > rest THEN listeners[key] ELSE rest

\* toggleMapStyle(): the callback is registered, the style is replaced and
\* the state flips.  The button is used once the map has loaded.
ToggleMapStyle ==
    /\ projectPc \in {"fetch", "done"}
    /\ styledataOnce + MostListeners(districtListeners) <= MaxToggles
    /\ styledataOnce' = styledataOnce + 1
    /\ isSatelliteView' = ~isSatelliteView
    /\ UNCHANGED <<pnvVars, rpVars, clVars, csvVars, censusVars, popupVars,
                   loadVars, districtVars, uiVars, mapVars>>

\* The listeners after n runs of the callback of part_000, each of which
\* registers the three listeners of every district again.
RECURSIVE ListenersAfter(_, _, _)
ListenersAfter(listeners, districts, n) ==
    IF n = 0 THEN listeners
    ELSE ListenersAfter(On(listeners, DistrictEventTypes \X districts), districts, n - 1)

\* The callback of part_000, run n times on the new style: the sources and
\* layers of the districts are added where the map lacks them, and the
\* listeners are registered again.
Part000StyleData(n) ==
    /\ districtSources' = districtsRef
    /\ districtLayers' = AddDistrictLayers(NoDistrictLayers, DistrictLayersOf(districtsRef))
    /\ districtListeners' = ListenersAfter(districtListeners, districtsRef, n)
    /\ UNCHANGED <<censusSource, censusLayers, censusEventsBoundRef, censusLayersReady,
                   mapVars, featureState>>

\* The callback of App.jsx on the new style: the markers are added to the
\* map they are on, and addCensusSourceAndLayers() runs.
AppStyleData ==
    /\ districtSources' = {} /\ districtLayers' = NoDistrictLayers
    /\ featureState' = {}
    /\ AddCensusSourceAndLayersTo(Null, NoLayers, censusDataRef, censusStatsRef,
                                  censusViewRef, censusVisibleRef)
    /\ UNCHANGED districtListeners

\* The styledata event of the new style.
StyleData ==
    /\ styledataOnce > 0
    /\ styledataOnce' = 0
    /\ IF variant = "part_000" THEN Part000StyleData(styledataOnce) ELSE AppStyleData
    /\ UNCHANGED <<isSatelliteView, districtsResponse, districtsRef, districtsPc, zoomCalls,
                   variant, censusResponse, censusDataRef, censusStatsRef, censusStats,
                   statsEffect, censusFailed, censusPc, censusViewRef, censusVisibleRef,
                   censusVisible, activeCensusView, rendered, hoveredCensusIdRef,
                   pnvVars, rpVars, clVars, csvVars, popupVars, loadVars>>

\* A click on the fill layer of a district: every click listener of the
\* layer calls zoomToDistrict(districtId).  What zoomToDistrict does to the
\* camera and to the paint of the layers is not modelled.
ClickDistrict(districtId) ==
    /\ <<districtId, "fill">> \in DOMAIN districtLayers
    /\ districtLayers[<<districtId, "fill">>] = "visible"
    /\ zoomCalls' =
           IF <<"click", districtId>> \in DOMAIN districtListeners
           THEN districtListeners[<<"click", districtId>>] ELSE 0
    /\ UNCHANGED <<districtsResponse, districtsRef, districtsPc, districtSources,
                   districtLayers, districtListeners,
                   pnvVars, rpVars, clVars, csvVars, censusVars, popupVars,
                   loadVars, styleVars, uiVars, mapVars>>

---------------------------------------------------------------------------
(* The census controls of App.jsx: the view and visibility handlers, the   *)
(* effects on them and the hover handlers of the census layers.            *)
(*                                                                         *)
(* A handler changes states and refs; the render that follows runs the     *)
(* effects whose dependencies differ from those of the render before.      *)
(* React renders at the end of each click and runs the effects of a render *)
(* before it renders again, so a click on a view finds the view before it  *)
(* rendered and its effects run.                                           *)

\* The states the effects on the census view depend on.
ViewDependencies ==
    [censusVisible |-> censusVisible, activeCensusView |-> activeCensusView,
     censusLayersReady |-> censusLayersReady]

CensusViews == {"risk", "pred3pe"}

\* handleCensusViewChange(view), from the radio buttons, which are rendered
\* when the layers are ready, there are statistics and the census is visible.
HandleCensusViewChange(view) ==
    /\ rendered.censusLayersReady /\ censusStats # Null /\ rendered.censusVisible
    /\ rendered.activeCensusView = activeCensusView
    /\ censusViewRef' = view
    /\ activeCensusView' = view
    /\ UNCHANGED <<censusVisible, rendered, hoveredCensusIdRef, featureState,
                   variant, censusResponse, censusDataRef, censusStatsRef, censusStats,
                   statsEffect, censusSource, censusLayers, censusEventsBoundRef,
                   censusLayersReady, censusFailed, censusPc, censusVisibleRef,
                   pnvVars, rpVars, clVars, csvVars, popupVars,
                   loadVars, districtVars, styleVars, mapVars>>

\* resetView(), as far as the census goes: handleCensusViewChange('risk').
\* Its button is in the panel of a selected element.
ResetView ==
    /\ rendered.activeCensusView = activeCensusView
    /\ censusViewRef' = "risk"
    /\ activeCensusView' = "risk"
    /\ UNCHANGED <<censusVisible, rendered, hoveredCensusIdRef, featureState,
                   variant, censusResponse, censusDataRef, censusStatsRef, censusStats,
                   statsEffect, censusSource, censusLayers, censusEventsBoundRef,
                   censusLayersReady, censusFailed, censusPc, censusVisibleRef,
                   pnvVars, rpVars, clVars, csvVars, popupVars,
                   loadVars, districtVars, styleVars, mapVars>>

\* What the map reports when asked to style a layer it does not have.
Missing(districtId, part) == [error |-> "missing", source |-> districtId, layer |-> part]

\* map.setLayoutProperty(`${districtId}-fill` and `-outline`, 'visibility',
\* visibility) for each of districts: the layers the map has take it.
SetDistrictVisibility(layers, districts, visibility) ==
    [key \in DOMAIN layers |-> IF key[1] \in districts THEN visibility ELSE layers[key]]

\* handleCensusVisibilityToggle(): the state flips, and the district layers
\* are hidden or shown by the censusVisible of the render the handler
\* belongs to.  The button is disabled until the census layers are ready.
HandleCensusVisibilityToggle ==
    /\ rendered.censusLayersReady
    /\ censusVisible' = ~censusVisible
    /\ districtLayers' =
           SetDistrictVisibility(districtLayers, districtsRef,
                                 IF ~rendered.censusVisible THEN "none" ELSE "visible")
    /\ mapErrors' =
           mapErrors \cup {Missing(key[1], key[2]) :
                              key \in (districtsRef \X {"fill", "outline"}) \ DOMAIN districtLayers}
    /\ UNCHANGED <<activeCensusView, rendered, hoveredCensusIdRef, featureState,
                   censusListeners, censusVars,
                   districtsResponse, districtsRef, districtsPc, districtSources,
                   districtListeners, zoomCalls,
                   pnvVars, rpVars, clVars, csvVars, popupVars, loadVars, styleVars>>

\* The three guarded calls of setLayoutProperty in the effect on the view:
\* the census layers the map has take the visibility the states give.
SetCensusVisibility(layers, view, visible) ==
    [id \in DOMAIN layers |->
        [layers[id] EXCEPT !.visibility =
            CASE id = "census-tracts-risk" -> Visibility(visible /\ view = "risk")
              [] id = "census-tracts-pred3pe" -> Visibility(visible /\ view = "pred3pe")
              [] id = "census-tracts-outline" -> Visibility(visible)
              [] OTHER -> @]]

\* map.setFeatureState({ source: 'census-tracts', id }, { hover: false })
Unhover(state, id) == state \ {id}

\* The render that follows a change of censusVisible, activeCensusView or
\* censusLayersReady, and its effects in the order of their declaration:
\* useEffect[censusVisible] stores the state in censusVisibleRef;
\* useEffect[activeCensusView, censusVisible, censusLayersReady] stores the
\* view, sets the visibility of the layers, drops the hover when the census
\* is hidden and, the layers being ready, calls addCensusSourceAndLayers().
CensusViewEffects ==
    /\ variant = "App.jsx"
    /\ rendered # ViewDependencies
    /\ rendered' = ViewDependencies
    /\ censusVisibleRef' = censusVisible
    /\ censusViewRef' = activeCensusView
    /\ featureState' =
           IF ~censusVisible /\ hoveredCensusIdRef # Null
           THEN Unhover(featureState, hoveredCensusIdRef) ELSE featureState
    /\ hoveredCensusIdRef' = IF ~censusVisible THEN Null ELSE hoveredCensusIdRef
    /\ IF censusLayersReady
       THEN AddCensusSourceAndLayersTo(
                censusSource,
                SetCensusVisibility(censusLayers, activeCensusView, censusVisible),
                censusDataRef, censusStatsRef, activeCensusView, censusVisible)
       ELSE /\ censusLayers' =
                   SetCensusVisibility(censusLayers, activeCensusView, censusVisible)
            /\ UNCHANGED <<censusSource, censusEventsBoundRef, censusLayersReady, mapVars>>
    /\ UNCHANGED <<censusVisible, activeCensusView,
                   variant, censusResponse, censusDataRef, censusStatsRef, censusStats,
                   statsEffect, censusFailed, censusPc,
                   pnvVars, rpVars, clVars, csvVars, popupVars,
                   loadVars, districtVars, styleVars>>

\* The features of the source 'census-tracts'.
SourceFeatures == IF censusSource = Null THEN <<>> ELSE FeaturesOrEmpty(censusSource)

\* The pointer can be over the layer: it is on the map, visible, and has a
\* listener for the event.
Listening(type, layerId) ==
    /\ layerId \in DOMAIN censusLayers
    /\ censusLayers[layerId].visibility = "visible"
    /\ <<type, layerId>> \in DOMAIN censusListeners

\* handleHover(e), e.features[0] being the feature-th feature of the
\* source, a polygon under the pointer.
MouseMove(layerId, feature) ==
    /\ Listening("mousemove", layerId)
    /\ ~Falsy(SourceFeatures[feature].geometry)
    /\ IF SourceFeatures[feature].id = Undefined \/ SourceFeatures[feature].id = Null
       THEN UNCHANGED <<hoveredCensusIdRef, featureState>>
       ELSE /\ hoveredCensusIdRef' = SourceFeatures[feature].id
            /\ featureState' =
                   (IF hoveredCensusIdRef # Null
                    THEN Unhover(featureState, hoveredCensusIdRef) ELSE featureState)
                       \cup {SourceFeatures[feature].id}
    /\ UNCHANGED <<censusVisible, activeCensusView, rendered,
                   pnvVars, rpVars, clVars, csvVars, censusVars, popupVars,
                   loadVars, districtVars, styleVars, mapVars>>

\* handleLeave()
MouseLeave(layerId) ==
    /\ Listening("mouseleave", layerId)
    /\ featureState' =
           IF hoveredCensusIdRef # Null
           THEN Unhover(featureState, hoveredCensusIdRef) ELSE featureState
    /\ hoveredCensusIdRef' = Null
    /\ UNCHANGED <<censusVisible, activeCensusView, rendered,
                   pnvVars, rpVars, clVars, csvVars, censusVars, popupVars,
                   loadVars, districtVars, styleVars, mapVars>>

\* Two tracts with GEOIDs of their own, and two of which the first takes
\* its index 0 as identifier and the second declares the identifier 0.
TwoTracts ==
    <<Tract(Undefined, TractProperties(VeryHigh, Undefined, Num(42, 0), Tract12), TractPolygon),
      Tract(Undefined, TractProperties(VeryLow, Undefined, Num(7, 0), Tract34), TractPolygon)>>
TwoTractsOneId ==
    <<Tract(Undefined, TractProperties(VeryHigh, Undefined, Num(42, 0), Undefined), TractPolygon),
      Tract(Num(0, 0), TractProperties(VeryLow, Undefined, Num(7, 0), Tract34), TractPolygon)>>

\* The census collections the controls are used on.
UiCensusResponses ==
    {[outcome |-> "notOk", body |-> Null],
     [outcome |-> "ok", body |-> FeatureCollection(Arr(TwoTracts))],
     [outcome |-> "ok", body |-> FeatureCollection(Arr(TwoTractsOneId))]}

---------------------------------------------------------------------------
(* Specifications: one per component, the other components idle.           *)

PnvIdle == value = Null /\ parsed = Null /\ pnvPc = "idle"
RpIdle == rawGeojson = Null /\ reprojected = Null /\ rpPc = "idle"
ClIdle == line = <<>> /\ fields = <<>> /\ clPc = "idle"
CsvIdle ==
    /\ csvResponse = [outcome |-> "notOk", text |-> <<>>]
    /\ pred3PEDataRef = EmptyMap /\ csvWarned = FALSE /\ csvPc = "idle"
CensusIdle ==
    /\ variant = "App.jsx"
    /\ censusResponse = [outcome |-> "notOk", body |-> Null]
    /\ censusDataRef = Null /\ censusStatsRef = Null /\ censusStats = Null
    /\ statsEffect = FALSE /\ censusSource = Null /\ censusLayers = NoLayers
    /\ censusEventsBoundRef = FALSE /\ censusLayersReady = FALSE
    /\ censusFailed = FALSE /\ censusPc = "idle"
    /\ censusViewRef = "risk" /\ censusVisibleRef = TRUE
PopupIdle ==
    /\ allMarkers = {} /\ activeFeature = Null /\ popupOnMap = Null
    /\ popupEffect = FALSE /\ gesture = [kind |-> "none", feature |-> Null]
    /\ popupPc = "idle"
LoadIdle ==
    /\ loading = TRUE /\ error = Null
    /\ projectResponse = [outcome |-> "notOk", body |-> Null] /\ projectPc = "idle"
DistrictIdle ==
    /\ districtsResponse = [outcome |-> "rejected", ids |-> <<>>]
    /\ districtsRef = {} /\ districtsPc = "idle"
    /\ districtSources = {} /\ districtLayers = NoDistrictLayers
    /\ districtListeners = NoListeners /\ zoomCalls = 0
StyleIdle == isSatelliteView = FALSE /\ styledataOnce = 0
UiIdle ==
    /\ censusVisible = TRUE /\ activeCensusView = "risk"
    /\ rendered = [censusVisible |-> TRUE, activeCensusView |-> "risk",
                   censusLayersReady |-> FALSE]
    /\ hoveredCensusIdRef = Null /\ featureState = {}
MapIdle == censusListeners = NoListeners /\ mapErrors = {}
AppIdle == LoadIdle /\ DistrictIdle /\ StyleIdle /\ UiIdle /\ MapIdle

\* The value parser is about to be called with some scalar.
InitParse ==
    /\ value \in Scalars(MaxStrLen) /\ parsed = Null /\ pnvPc = "call"
    /\ RpIdle /\ ClIdle /\ CsvIdle /\ CensusIdle /\ PopupIdle /\ AppIdle

SpecParse == InitParse /\ [][CallParseNumericValue]_vars

\* The normalizer is about to be called with some collection.
InitReproject ==
    /\ rawGeojson \in Collections(MaxFeatures) /\ reprojected = Null /\ rpPc = "call"
    /\ PnvIdle /\ ClIdle /\ CsvIdle /\ CensusIdle /\ PopupIdle /\ AppIdle

SpecReproject == InitReproject /\ [][CallReproject]_vars

\* parseCSVLine is about to be called with some line.
InitCsvLine ==
    /\ line \in CsvLines(MaxLineLen) /\ fields = <<>> /\ clPc = "call"
    /\ PnvIdle /\ RpIdle /\ CsvIdle /\ CensusIdle /\ PopupIdle /\ AppIdle

SpecCsvLine == InitCsvLine /\ [][CallParseCSVLine]_vars

\* The load handler is about to fetch the side table; pred3PEDataRef is
\* useRef({}).
InitSideTable ==
    /\ csvResponse \in CsvResponses(MaxRows)
    /\ pred3PEDataRef = EmptyMap /\ csvWarned = FALSE /\ csvPc = "fetch"
    /\ PnvIdle /\ RpIdle /\ ClIdle /\ CensusIdle /\ PopupIdle /\ AppIdle

SpecSideTable == InitSideTable /\ [][LoadSideTable]_vars

\* The load handler is about to run its side-table block (App.jsx) or its
\* census block (part_003); the refs and states are as the component
\* declares them.
InitCensus ==
    /\ variant \in {"App.jsx", "part_003"}
    /\ IF variant = "App.jsx"
       THEN csvResponse \in SideTableResponses /\ csvPc = "fetch"
       ELSE csvResponse = [outcome |-> "notOk", text |-> <<>>] /\ csvPc = "idle"
    /\ pred3PEDataRef = EmptyMap /\ csvWarned = FALSE
    /\ censusResponse \in CensusResponses(MaxFeatures)
    /\ censusDataRef = Null /\ censusStatsRef = Null /\ censusStats = Null
    /\ statsEffect = FALSE /\ censusSource = Null /\ censusLayers = NoLayers
    /\ censusEventsBoundRef = FALSE /\ censusLayersReady = FALSE
    /\ censusFailed = FALSE /\ censusPc = "fetch"
    /\ censusViewRef = "risk" /\ censusVisibleRef = TRUE
    /\ PnvIdle /\ RpIdle /\ ClIdle /\ PopupIdle /\ AppIdle

NextCensus == LoadSideTable \/ LoadCensus \/ LoadCensusRiskIndex \/ CensusStatsEffect

SpecCensus == InitCensus /\ [][NextCensus]_vars

\* The markers of the projects are on the map and no popup is open.
InitPopup ==
    /\ allMarkers \in {Projects(n) : n \in 1 .. MaxProjects} /\ activeFeature = Null /\ popupOnMap = Null
    /\ popupEffect = FALSE /\ gesture = [kind |-> "none", feature |-> Null]
    /\ popupPc = "ready"
    /\ PnvIdle /\ RpIdle /\ ClIdle /\ CsvIdle /\ CensusIdle /\ AppIdle

SpecPopup == InitPopup /\ [][NextPopup]_vars

\* App.jsx after the first three blocks of its load handler: the city
\* block has failed, the markers of the projects are on the map, the side
\* table is empty and the census block is about to run.  The districts
\* have been fetched.
InitUi ==
    /\ variant = "App.jsx"
    /\ districtsResponse \in {[outcome |-> "ok", ids |-> SubSeq(<<"1", "2", "3", "4">>, 1, m)] :
                                  m \in 0 .. MaxDistricts}
    /\ districtsRef = {districtsResponse.ids[i] : i \in 1 .. Len(districtsResponse.ids)}
    /\ districtsPc = "done"
    /\ districtSources = {} /\ districtLayers = NoDistrictLayers
    /\ districtListeners = NoListeners /\ zoomCalls = 0
    /\ loading = FALSE /\ error = Message("Error initializing map")
    /\ projectResponse = [outcome |-> "ok", body |-> ProjectBody(1)] /\ projectPc = "done"
    /\ allMarkers = Projects(1) /\ activeFeature = Null /\ popupOnMap = Null
    /\ popupEffect = FALSE /\ gesture = [kind |-> "none", feature |-> Null]
    /\ popupPc = "idle"
    /\ csvResponse = [outcome |-> "notOk", text |-> <<>>]
    /\ pred3PEDataRef = EmptyMap /\ csvWarned = FALSE /\ csvPc = "done"
    /\ censusResponse \in UiCensusResponses /\ censusPc = "fetch"
    /\ censusDataRef = Null /\ censusStatsRef = Null /\ censusStats = Null
    /\ statsEffect = FALSE /\ censusSource = Null /\ censusLayers = NoLayers
    /\ censusEventsBoundRef = FALSE /\ censusLayersReady = FALSE
    /\ censusFailed = FALSE
    /\ censusViewRef = "risk" /\ censusVisibleRef = TRUE
    /\ PnvIdle /\ RpIdle /\ ClIdle /\ StyleIdle /\ UiIdle /\ MapIdle

\* The census block, the effects and what the user can do with the census
\* controls and the pointer.
NextHover ==
    \/ LoadCensus \/ CensusStatsEffect \/ CensusViewEffects
    \/ \E view \in CensusViews : HandleCensusViewChange(view)
    \/ ResetView
    \/ HandleCensusVisibilityToggle
    \/ \E layerId \in CensusFillLayerIds :
           \E feature \in 1 .. Len(SourceFeatures) : MouseMove(layerId, feature)
    \/ \E layerId \in CensusFillLayerIds : MouseLeave(layerId)

SpecHover == InitUi /\ [][NextHover]_vars

\* The same with the map-style button.
NextUi == NextHover \/ ToggleMapStyle \/ StyleData

SpecUi == InitUi /\ [][NextUi]_vars

\* The collections the census block is run on after the project block: each
\* way of failing and each single tract.
LoadCensusResponses ==
    {[outcome |-> "rejected", body |-> Null], [outcome |-> "notOk", body |-> Null]}
        \cup {[outcome |-> "ok", body |-> FeatureCollection(Arr(<<t>>))] : t \in Tracts}

\* The component has mounted: the initialization effect has called
\* loadDistricts without awaiting it and has created the map, whose load
\* event is to come.  part_000 has neither side table nor census block.
InitLoad ==
    /\ variant \in {"App.jsx", "part_000"}
    /\ districtsResponse \in DistrictsResponses(MaxDistricts)
    /\ districtsRef = {} /\ districtsPc = "fetch"
    /\ districtSources = {} /\ districtLayers = NoDistrictLayers
    /\ districtListeners = NoListeners /\ zoomCalls = 0
    /\ loading = TRUE /\ error = Null
    /\ projectResponse \in ProjectResponses(MaxProjects) /\ projectPc = "load"
    /\ IF variant = "App.jsx"
       THEN /\ csvResponse \in SideTableResponses
            /\ censusResponse \in LoadCensusResponses /\ censusPc = "fetch"
       ELSE /\ csvResponse = [outcome |-> "notOk", text |-> <<>>]
            /\ censusResponse = [outcome |-> "notOk", body |-> Null] /\ censusPc = "idle"
    /\ pred3PEDataRef = EmptyMap /\ csvWarned = FALSE /\ csvPc = "idle"
    /\ censusDataRef = Null /\ censusStatsRef = Null /\ censusStats = Null
    /\ statsEffect = FALSE /\ censusSource = Null /\ censusLayers = NoLayers
    /\ censusEventsBoundRef = FALSE /\ censusLayersReady = FALSE
    /\ censusFailed = FALSE
    /\ censusViewRef = "risk" /\ censusVisibleRef = TRUE
    /\ PnvIdle /\ RpIdle /\ ClIdle /\ PopupIdle /\ StyleIdle /\ UiIdle /\ MapIdle

NextLoad ==
    LoadDistricts \/ MapLoad \/ LoadProjects \/ LoadSideTable \/ LoadCensus
        \/ CensusStatsEffect

SpecLoad == InitLoad /\ [][NextLoad]_vars

\* The fetch of the projects settles and the handler goes on from it.
SpecLoadFair == SpecLoad /\ WF_vars(LoadProjects)

\* part_000 has mounted; the style button and the districts are there to
\* click once the map has loaded.
InitDistricts == InitLoad /\ variant = "part_000"

NextDistricts ==
    \/ LoadDistricts \/ MapLoad \/ LoadProjects
    \/ ToggleMapStyle \/ StyleData
    \/ \E districtId \in districtsRef : ClickDistrict(districtId)

SpecDistricts == InitDistricts /\ [][NextDistricts]_vars

---------------------------------------------------------------------------
(* Properties of the value parser (SpecParse).                             *)

\* No character of s is a digit: s holds no parseable number.
NoDigit(s) == \A i \in 1 .. Len(s) : s[i] \notin Digit

\* C1: parseNumericValue returns null for every string that contains no
\* parseable number ("abc", the empty string, letters and symbols only).
C1_InvalidStringYieldsNull ==
    (pnvPc = "done" /\ value.k = "str" /\ NoDigit(value.s)) => parsed = Null

\* C2: for every scalar parseNumericValue returns null or a finite number,
\* never NaN, an infinity or a string, and a finite number is returned as is.
C2_NullOrFinite ==
    pnvPc = "done" =>
        /\ parsed = Null \/ parsed.k = "num"
        /\ value.k = "num" => parsed = value

\* C2's case: a string whose digits write a number beyond the range of a
\* double (Number gives Infinity) has been parsed to null.
C2_Witness ==
    /\ pnvPc = "done"
    /\ value.k = "str"
    /\ StringToNumber(Cleaned(value)).k = "inf"
    /\ parsed = Null

---------------------------------------------------------------------------
(* Properties of the coordinate normalizer (SpecReproject).                *)

Range(f) == {f[i] : i \in DOMAIN f}

FeatureCount(fc) == IF HasNoFeatures(fc) THEN 0 ELSE Len(fc.features.a)

\* The coordinate pairs of feature i of fc, depth first.
PairsOfFeature(fc, i) == walkCoordinates(FeatureGeometry(fc.features.a[i]))

\* Every coordinate pair of every feature of fc.
AllPairs(fc) ==
    UNION {Range(PairsOfFeature(fc, i)) : i \in 1 .. FeatureCount(fc)}

\* |x| <= 180 and |y| <= 90
InBounds(p) == Abs(p[1]) <= 1800 /\ Abs(p[2]) <= 900

\* The features of fc that hold a coordinate pair.
WithPairs(fc) == {i \in 1 .. FeatureCount(fc) : PairsOfFeature(fc, i) # <<>>}

\* The first coordinate pair of fc lies outside the geographic bounds.
FirstPairOutOfBounds(fc) ==
    /\ WithPairs(fc) # {}
    /\ LET first == CHOOSE i \in WithPairs(fc) : \A j \in WithPairs(fc) : i <= j
       IN  ~InBounds(PairsOfFeature(fc, first)[1])

RECURSIVE Nesting(_)
\* The nesting of a coordinates value, each position replaced by the number
\* of its components.
Nesting(coords) ==
    IF ~IsArray(coords) THEN coords
    ELSE IF IsPair(coords) THEN Pos(<<Len(coords.p)>>)
    ELSE Arr([i \in 1 .. Len(coords.a) |-> Nesting(coords.a[i])])

\* The Web-Mercator inverse image of the pair (p[1], p[2]).
InverseImage(p) == <<MercatorLon(p[1]), MercatorLat(p[2])>>

\* C3: after reprojectFeatureCollectionIfNeeded returns, every coordinate
\* pair of the returned collection has |x| <= 180 and |y| <= 90, whatever
\* the input collection.
C3_AllPairsGeographic ==
    rpPc = "done" => \A p \in AllPairs(reprojected.fc) : InBounds(p)

\* C4: when every coordinate pair of the input is within the geographic
\* bounds, the value returned is the input collection itself, unchanged.
C4_IdentityOnGeographic ==
    (rpPc = "done" /\ \A p \in AllPairs(rawGeojson) : InBounds(p)) =>
        reprojected = [same |-> TRUE, fc |-> rawGeojson]

\* C4's case: a collection of two features whose pairs are all in bounds,
\* one of them on the bounds (180, 90), has been normalized.
C4_Witness ==
    /\ rpPc = "done"
    /\ Cardinality(WithPairs(rawGeojson)) = 2
    /\ <<1800, 900>> \in AllPairs(rawGeojson)
    /\ \A p \in AllPairs(rawGeojson) : InBounds(p)

\* C5: when the first coordinate pair found lies outside the geographic
\* bounds, a new collection is returned in which the pairs of every feature
\* that has a geometry are, one for one and at every nesting depth, the
\* Web-Mercator inverse images of the input's pairs.
C5_EveryPairTransformedOnce ==
    (rpPc = "done" /\ FirstPairOutOfBounds(rawGeojson)) =>
        /\ ~reprojected.same
        /\ FeatureCount(reprojected.fc) = FeatureCount(rawGeojson)
        /\ \A i \in 1 .. FeatureCount(rawGeojson) :
              LET before == PairsOfFeature(rawGeojson, i)
                  after == PairsOfFeature(reprojected.fc, i)
              IN  /\ Len(after) = Len(before)
                  /\ \A j \in 1 .. Len(before) : after[j] = InverseImage(before[j])

\* C5's case: a projected collection whose second feature nests a pair three
\* arrays deep (a multi-polygon) has been reprojected.
C5_Witness ==
    /\ rpPc = "done"
    /\ FirstPairOutOfBounds(rawGeojson)
    /\ FeatureCount(rawGeojson) = 2
    /\ rawGeojson.features.a[2] # Null
    /\ rawGeojson.features.a[2].geometry # Null
    /\ rawGeojson.features.a[2].geometry.type = "MultiPolygon"
    /\ PairsOfFeature(reprojected.fc, 2) = <<<<-802, 256>>>>

\* C6: reprojection keeps the structure: as many features, in the same
\* order, with the same properties and geometry type, the same nesting of
\* coordinate arrays and as many components in every position.  (That the
\* input is not written is CallReproject's UNCHANGED rawGeojson.)
C6_StructurePreserved ==
    rpPc = "done" =>
        /\ FeatureCount(reprojected.fc) = FeatureCount(rawGeojson)
        /\ \A i \in 1 .. FeatureCount(rawGeojson) :
              LET before == rawGeojson.features.a[i]
                  after == reprojected.fc.features.a[i]
              IN  IF Falsy(FeatureGeometry(before)) THEN after = before
                  ELSE /\ after.properties = before.properties
                       /\ after.geometry.type = before.geometry.type
                       /\ Nesting(after.geometry.coordinates)
                              = Nesting(before.geometry.coordinates)

\* C7: a collection without features, without geometries or without any
\* coordinate pair is returned as it is; and in a reprojected collection a
\* feature without geometry, or whose coordinates are null, is the input's.
C7_NothingToTransform ==
    rpPc = "done" =>
        /\ AllPairs(rawGeojson) = {} =>
              reprojected = [same |-> TRUE, fc |-> rawGeojson]
        /\ ~reprojected.same =>
              \A i \in 1 .. FeatureCount(rawGeojson) :
                  LET before == rawGeojson.features.a[i]
                  IN  (\/ Falsy(FeatureGeometry(before))
                       \/ Falsy(before.geometry.coordinates))
                          => reprojected.fc.features.a[i] = before

\* C7's case: a collection has been reprojected that holds a feature whose
\* geometry has null coordinates.
C7_Witness ==
    /\ rpPc = "done"
    /\ ~reprojected.same
    /\ \E i \in 1 .. FeatureCount(rawGeojson) :
          /\ ~Falsy(FeatureGeometry(rawGeojson.features.a[i]))
          /\ rawGeojson.features.a[i].geometry.coordinates = Null

---------------------------------------------------------------------------
(* Properties of the side-table loader (SpecCsvLine, SpecSideTable).       *)

\* The comma at position i of l is read in the unquoted state: an even
\* number of quote characters precede it.
Unquoted(l, i) == Cardinality({j \in 1 .. i - 1 : l[j] = "\""}) % 2 = 0

CommasOutsideQuotes(l) == {i \in 1 .. Len(l) : l[i] = "," /\ Unquoted(l, i)}
CommasInsideQuotes(l) == {i \in 1 .. Len(l) : l[i] = "," /\ ~Unquoted(l, i)}

\* The places (field, index) of character c in the fields fs of line l.
PlacesOf(c, fs, l) ==
    {pl \in (1 .. Len(fs)) \X (1 .. Len(l)) :
        pl[2] <= Len(fs[pl[1]]) /\ fs[pl[1]][pl[2]] = c}

\* C8: the side-table loader records a row only if its normalized key is
\* non-empty and its value is a finite number: every key of the mapping is
\* non-empty and every value is finite.
C8_KeysNonEmptyValuesFinite ==
    csvPc = "done" =>
        \A key \in DOMAIN pred3PEDataRef :
            key # <<>> /\ IsFinite(pred3PEDataRef[key])

\* C9: parseCSVLine returns one field more than the line has commas outside
\* quotes, the commas inside quotes are field content, no field holds a
\* quote character, and "Miami, FL",42 yields the fields Miami, FL and 42.
C9_FieldsSplitOutsideQuotes ==
    clPc = "done" =>
        /\ Len(fields) = 1 + Cardinality(CommasOutsideQuotes(line))
        /\ Cardinality(PlacesOf(",", fields, line))
               = Cardinality(CommasInsideQuotes(line))
        /\ PlacesOf("\"", fields, line) = {}
        /\ line = MiamiLine =>
               fields = << <<"M", "i", "a", "m", "i", ",", " ", "F", "L">>, <<"4", "2">> >>

\* C9's case: a line with a comma inside quotes and a comma outside them
\* has been parsed into two fields.
C9_Witness ==
    /\ clPc = "done"
    /\ CommasInsideQuotes(line) # {}
    /\ CommasOutsideQuotes(line) # {}
    /\ Len(fields) = 2

\* The header fields of a file that has a line.
HeaderOf(text) == parseCSVLine(Lines(text)[1])

\* The file was fetched, has a header line, and the header lacks a column.
HeaderLacksColumn ==
    /\ csvResponse.outcome = "ok"
    /\ Lines(csvResponse.text) # <<>>
    /\ \/ GEO_ID \notin Range(HeaderOf(csvResponse.text))
       \/ PRED3_PE \notin Range(HeaderOf(csvResponse.text))

\* C10: if the header lacks the GEO_ID column or the PRED3_PE column, the
\* loader produces an empty mapping whatever the data rows, and its catch
\* block does not run.
C10_MissingColumnIsInert ==
    (csvPc = "done" /\ HeaderLacksColumn) =>
        pred3PEDataRef = EmptyMap /\ ~csvWarned

\* C10's case: a file whose header is GEO_ID,NAME and which has a row with
\* a tract identifier and the value 3.14 has been loaded.
C10_Witness ==
    /\ csvPc = "done"
    /\ HeaderLacksColumn
    /\ HeaderOf(csvResponse.text) = <<GEO_ID, NAME>>
    /\ \E i \in 2 .. Len(Lines(csvResponse.text)) :
          parseCSVLine(Lines(csvResponse.text)[i])
              = <<GeoIdPrefix \o <<"1", "2">>, <<"3", ".", "1", "4">> >>

---------------------------------------------------------------------------
(* Properties of the census block (SpecCensus).                            *)

\* The census block has run to the end of its try block.
CensusClassified == censusPc = "done" /\ ~censusFailed

\* The features the classifier was given: those of the normalized collection.
NormalizedFeatures ==
    FeaturesOrEmpty(reprojectFeatureCollectionIfNeeded(censusResponse.body).fc)

\* The features of the enriched collection.
EnrichedFeatures == censusDataRef.features.a

\* The source properties of the i-th feature the classifier was given.
SourceProperties(i) == Or(NormalizedFeatures[i].properties, EmptyObject)

\* The enrichment property of the i-th enriched feature.
Enrichment(i, name) == EnrichedFeatures[i].properties.p[name]

NoStats == [min |-> Null, mid |-> Null, max |-> Null]

\* The side-table block failed: the fetch rejected, the response was not
\* ok, or parsing threw.
SideTableFailed ==
    csvPc = "done" /\ (csvResponse.outcome # "ok" \/ Lines(csvResponse.text) = <<>>)

\* C11: when fetching or parsing the side table fails, the classification
\* still runs, with an empty mapping: every enriched feature has __pred3PE
\* null, the statistics of the percentage are all null, and the source and
\* the three census layers are on the map.
C11_SideTableFailureIsInert ==
    (variant = "App.jsx" /\ SideTableFailed) =>
        /\ pred3PEDataRef = EmptyMap
        /\ censusPc \in {"fetch", "done"}
        /\ CensusClassified =>
               /\ \A i \in 1 .. Len(EnrichedFeatures) : Enrichment(i, "__pred3PE") = Null
               /\ censusStats.pred3PE = NoStats
               /\ censusStatsRef = censusStats
               /\ censusSource = censusDataRef
               /\ DOMAIN censusLayers = CensusLayerIds

\* The side table failed with an exception and a tract that names a GEOID
\* was classified all the same.
C11_Witness ==
    /\ variant = "App.jsx" /\ SideTableFailed /\ csvWarned /\ CensusClassified
    /\ \E i \in 1 .. Len(EnrichedFeatures) :
           /\ Property(SourceProperties(i), GeoidKey) = Tract12
           /\ Enrichment(i, "__pred3PE") = Null

EnrichmentNames == {"__riskRating", "__population", "__pred3PE"}

\* C12: the classifier never drops or adds a feature: the enriched
\* collection has as many features as the normalized input, in the same
\* order (each keeps its geometry and its source properties), and every
\* enriched feature carries __riskRating, __population and __pred3PE, each
\* a value or null, also when it has no source property at all.
C12_NoFeatureDroppedOrAdded ==
    (variant = "App.jsx" /\ CensusClassified) =>
        /\ Len(EnrichedFeatures) = Len(NormalizedFeatures)
        /\ censusStats.counts.total = Len(NormalizedFeatures)
        /\ \A i \in 1 .. Len(EnrichedFeatures) :
               /\ i <= Len(NormalizedFeatures)
               /\ EnrichedFeatures[i].geometry = NormalizedFeatures[i].geometry
               /\ \A name \in DOMAIN SourceProperties(i).p :
                      Property(EnrichedFeatures[i].properties, name)
                          = SourceProperties(i).p[name]
               /\ \A name \in EnrichmentNames :
                      /\ name \in DOMAIN EnrichedFeatures[i].properties.p
                      /\ Enrichment(i, name) # Undefined

\* Two tracts were classified, the first with properties and the second
\* with none: the second is there, with its three properties null.
C12_Witness ==
    /\ variant = "App.jsx" /\ CensusClassified
    /\ Len(EnrichedFeatures) = 2
    /\ DOMAIN SourceProperties(1).p # {}
    /\ NormalizedFeatures[2].properties = Null
    /\ \A name \in EnrichmentNames : Enrichment(2, name) = Null

\* v is neither null nor undefined.
Present(v) == v # Null /\ v # Undefined

\* C13: the identifier of an enriched feature is the id its source declares
\* when there is one, otherwise its L0Census_Tracts.GEOID when there is
\* one, otherwise its index in the input, counted from 0.
C13_IdentifierFirstPresent ==
    CensusClassified =>
        \A i \in 1 .. Len(EnrichedFeatures) :
            LET declared == NormalizedFeatures[i].id
                geoid == Property(SourceProperties(i), GeoidKey)
            IN  EnrichedFeatures[i].id =
                    IF Present(declared) THEN declared
                    ELSE IF Present(geoid) THEN geoid
                    ELSE Num(i - 1, 0)

\* A tract that declares the id 0 and has a GEOID keeps the 0, and the
\* tract after it, with neither, takes its index 1.
C13_Witness ==
    /\ CensusClassified
    /\ Len(EnrichedFeatures) = 2
    /\ NormalizedFeatures[1].id = Num(0, 0)
    /\ Property(SourceProperties(1), GeoidKey) = Tract12
    /\ EnrichedFeatures[1].id = Num(0, 0)
    /\ NormalizedFeatures[2].id = Undefined
    /\ Property(SourceProperties(2), GeoidKey) = Undefined
    /\ EnrichedFeatures[2].id = Num(1, 0)

\* The finite numbers among the values of an enrichment property, in order.
FiniteValues(name) == SelectSeq(Column(EnrichedFeatures, name), IsFiniteNumber)

\* The non-null values of an enrichment property, in order.
NonNullValues(name) == SelectSeq(Column(EnrichedFeatures, name), NotNullish)

\* stats are the statistics of values: all null for no value, otherwise
\* the least and the greatest of them and a midpoint between the two.
IsRangeOf(stats, values) ==
    IF values = <<>> THEN stats = NoStats
    ELSE /\ \E i \in 1 .. Len(values) : stats.min = values[i]
         /\ \E i \in 1 .. Len(values) : stats.max = values[i]
         /\ \A i \in 1 .. Len(values) :
                LessEq(stats.min, values[i]) /\ LessEq(values[i], stats.max)
         /\ stats.mid = Plus(stats.min, Half(Minus(stats.max, stats.min)))
         /\ LessEq(stats.min, stats.mid)
         /\ LessEq(stats.mid, stats.max)

\* C14: the statistics of each numeric field are computed over its non-null
\* finite values: min is their minimum, max their maximum and
\* mid = min + (max - min) / 2, so that min <= mid <= max; with no such
\* value the three are null.
C14_StatsOverFiniteValues ==
    CensusClassified =>
        /\ IsRangeOf(censusStats.population, FiniteValues("__population"))
        /\ variant = "App.jsx" => IsRangeOf(censusStats.pred3PE, FiniteValues("__pred3PE"))
        /\ variant = "part_003" => IsRangeOf(censusStats.risk, FiniteValues("__riskIndex"))

\* C15: counts.total is the number of enriched features, and the missing
\* count of each field is total minus the number of non-null values of the
\* field: it is between 0 and total.
C15_MissingIsTotalMinusNonNull ==
    CensusClassified =>
        LET counts == censusStats.counts
            MissingOf(missing, name) ==
                /\ missing = counts.total - Len(NonNullValues(name))
                /\ 0 <= missing /\ missing <= counts.total
        IN  /\ counts.total = Len(EnrichedFeatures)
            /\ MissingOf(counts.missingPopulation, "__population")
            /\ variant = "App.jsx" =>
                   /\ MissingOf(counts.missingRisk, "__riskRating")
                   /\ MissingOf(counts.missingPred3PE, "__pred3PE")
            /\ variant = "part_003" => MissingOf(counts.missingRisk, "__riskIndex")

\* The fallback color of the color expressions.
FallbackColor == Color("#9e9e9e")

\* The numeric field has no non-null value: its statistics are all null
\* and its layer paints every feature of the collection in the fallback
\* color.
DegeneratesToFallback(name, stats, layerId) ==
    NonNullValues(name) = <<>> =>
        /\ stats = NoStats
        /\ layerId \in DOMAIN censusLayers
        /\ \A i \in 1 .. Len(censusSource.features.a) :
               FillColor(censusLayers[layerId], censusSource.features.a[i]) = FallbackColor

\* C16: when a numeric field has no non-null value in the collection, its
\* statistics are {min: null, mid: null, max: null} and the color
\* expression built for it gives #9e9e9e for every feature, for __pred3PE
\* in App.jsx and for __riskIndex and __population in part_003.
C16_NoValuesGiveFallbackColor ==
    CensusClassified =>
        /\ variant = "App.jsx" =>
               DegeneratesToFallback("__pred3PE", censusStats.pred3PE, "census-tracts-pred3pe")
        /\ variant = "part_003" =>
               /\ DegeneratesToFallback("__riskIndex", censusStats.risk, "census-tracts-risk")
               /\ DegeneratesToFallback("__population", censusStats.population,
                                        "census-tracts-population")

\* Two tracts of part_003 without a risk index, one of them with a
\* population: the risk layer is painted in the fallback color throughout.
C16_Witness ==
    /\ variant = "part_003" /\ CensusClassified
    /\ Len(EnrichedFeatures) = 2
    /\ NonNullValues("__riskIndex") = <<>>
    /\ NonNullValues("__population") # <<>>
    /\ censusStats.risk = NoStats
    /\ \A i \in 1 .. 2 :
           FillColor(censusLayers["census-tracts-risk"], censusSource.features.a[i])
               = FallbackColor

\* The color the palette has for a rating, the fallback color for a value
\* that is not one of its names.
PaletteColor(rating) ==
    LET named == {i \in 1 .. Len(riskRatingColors) : riskRatingColors[i][1] = rating}
    IN  IF named = {} THEN FallbackColor
        ELSE Color(riskRatingColors[CHOOSE i \in named : TRUE][2])

\* No tract of the collection has an entry in the side table.
NoSideTableEntries ==
    \A i \in 1 .. Len(NormalizedFeatures) :
        LET geoid == Property(SourceProperties(i), GeoidKey)
        IN  geoid.k = "str" => geoid.s \notin DOMAIN pred3PEDataRef

\* C17: the risk layer paints a feature in the palette color of its
\* __riskRating, matched exactly against the five names, and in #9e9e9e
\* when the rating is null or not a name of the palette; two tracts rated
\* Very High and Very Low without side-table entries give the rating set
\* {Very High, Very Low}, __pred3PE null twice, and the colors #B71C1C and
\* #4CAF50.
C17_CategoricalColors ==
    (variant = "App.jsx" /\ CensusClassified) =>
        /\ {riskRatingColors[i][1] : i \in 1 .. Len(riskRatingColors)}
               = {VeryLow, RelativelyLow, RelativelyModerate, RelativelyHigh, VeryHigh}
        /\ \A i \in 1 .. Len(censusSource.features.a) :
               FillColor(censusLayers["census-tracts-risk"], censusSource.features.a[i])
                   = PaletteColor(Enrichment(i, "__riskRating"))
        /\ ( /\ Len(NormalizedFeatures) = 2
             /\ Property(SourceProperties(1), RiskRatingKey) = VeryHigh
             /\ Property(SourceProperties(2), RiskRatingKey) = VeryLow
             /\ NoSideTableEntries )
           => /\ censusStats.risk.ratings = Arr(<<VeryHigh, VeryLow>>)
              /\ Enrichment(1, "__pred3PE") = Null
              /\ Enrichment(2, "__pred3PE") = Null
              /\ FillColor(censusLayers["census-tracts-risk"], censusSource.features.a[1])
                     = Color("#B71C1C")
              /\ FillColor(censusLayers["census-tracts-risk"], censusSource.features.a[2])
                     = Color("#4CAF50")

\* The two tracts of the example were classified with a side table that
\* has a row, for neither of them.
C17_Witness ==
    /\ variant = "App.jsx" /\ CensusClassified
    /\ Len(NormalizedFeatures) = 2
    /\ Property(SourceProperties(1), RiskRatingKey) = VeryHigh
    /\ Property(SourceProperties(2), RiskRatingKey) = VeryLow
    /\ NoSideTableEntries
    /\ pred3PEDataRef # EmptyMap
    /\ FillColor(censusLayers["census-tracts-risk"], censusSource.features.a[1])
           = Color("#B71C1C")

\* C18: the __riskRating of an enriched feature is the risk-rating property
\* of its source as it stands whenever the source has the property, an
\* empty string or 0 included, and null only when it has not.
C18_RiskRatingVerbatim ==
    (variant = "App.jsx" /\ CensusClassified) =>
        \A i \in 1 .. Len(EnrichedFeatures) :
            Enrichment(i, "__riskRating") =
                IF RiskRatingKey \in DOMAIN SourceProperties(i).p
                THEN SourceProperties(i).p[RiskRatingKey]
                ELSE Null

\* C28: in the enriched census collection any two distinct features have
\* distinct identifiers, whether the features of the input declare an id,
\* only carry a GEOID or carry neither.
C28_IdentifiersDistinct ==
    (variant = "App.jsx" /\ CensusClassified) =>
        \A i, j \in 1 .. Len(EnrichedFeatures) :
            i # j => EnrichedFeatures[i].id # EnrichedFeatures[j].id

---------------------------------------------------------------------------
(* Properties of the popup of the project markers (SpecPopup).             *)

\* C20: every click on a project marker ends with the popup of that
\* project on the map, whatever clicks on markers and closes of the popup
\* came before it, a click on the marker whose popup the user has just
\* closed included: once the effect of the click has run, the popup on the
\* map is that of the marker clicked last.
C20_ClickShowsPopup ==
    (gesture.kind = "click" /\ ~popupEffect) => popupOnMap = gesture.feature

---------------------------------------------------------------------------
(* Properties of the load handler (SpecLoad, SpecLoadFair).                *)

\* The project block ended in its catch block.
ProjectsFailed == projectPc = "done" /\ ProjectThrows(projectResponse)

\* The census collection arrived and every feature of it can be classified.
CensusClassifiable ==
    /\ censusResponse.outcome = "ok" /\ ~Falsy(censusResponse.body)
    /\ ~MapThrows(reprojectFeatureCollectionIfNeeded(censusResponse.body).fc)

\* The features of the markers the project block puts on the map.
ProjectMarkers ==
    IF ProjectThrows(projectResponse) THEN {}
    ELSE {projectResponse.body.features.a[i] :
             i \in 1 .. Len(projectResponse.body.features.a)}

\* After a failed project block the load handler of App.jsx goes on to the
\* side table and the census collection, and classifies the collection as
\* it would have.
CensusAfterFailedProjects ==
    (variant = "App.jsx" /\ ProjectsFailed) =>
        /\ csvPc \in {"fetch", "done"} /\ censusPc \in {"fetch", "done"}
        /\ (censusPc = "done" /\ CensusClassifiable) =>
               /\ CensusClassified
               /\ Len(EnrichedFeatures) = Len(NormalizedFeatures)
               /\ censusStats # Null /\ censusStats.counts.total = Len(EnrichedFeatures)
               /\ censusSource = censusDataRef
               /\ DOMAIN censusLayers = CensusLayerIds

\* A census fetch that fails is caught: data, statistics and readiness are
\* as the component declared them and the markers stay.
FailedCensusIsInert ==
    (variant = "App.jsx" /\ censusPc = "done" /\ censusResponse.outcome # "ok") =>
        /\ censusFailed
        /\ censusDataRef = Null /\ censusStats = Null /\ censusLayersReady = FALSE
        /\ allMarkers = ProjectMarkers

\* C21: a failed data source never aborts the rest of the load sequence.
\* When the project fetch has failed, the handler stands at the side-table
\* block or at the census block or has run them, and the collection is
\* classified as it would have been; when the census fetch fails, the
\* failure is caught, censusDataRef, censusStats and censusLayersReady
\* keep null, null and false, and the project markers stay on the map.
C21_FailedSourceDoesNotAbort == CensusAfterFailedProjects /\ FailedCensusIsInert

\* The project fetch failed and the census collection was classified.
C21_Witness ==
    /\ variant = "App.jsx" /\ ProjectsFailed /\ error # Null
    /\ CensusClassified /\ Len(EnrichedFeatures) = 1

\* C26: after the map's load event the loading flag eventually becomes
\* false, whether the project fetch succeeds or fails, and once false it
\* never becomes true again.
C26_LoadingEnds ==
    /\ (projectPc \in {"fetch", "done"}) ~> (loading = FALSE)
    /\ [][loading = FALSE => loading' = FALSE]_vars

\* The project fetch of part_000 failed and the loading is over.
C26_Witness ==
    variant = "part_000" /\ ProjectsFailed /\ loading = FALSE

\* The text in the loading overlay, null when the overlay is not rendered:
\* {loading && (... {error || 'Loading map and projects...'} ...)}
OverlayText ==
    IF ~loading THEN Null
    ELSE IF error # Null THEN error ELSE Message("Loading map and projects...")

\* C27: whenever the error state is set, loading is set to false in the
\* same step: in every state error != null implies loading = false, and
\* the overlay, the only place that renders the error, never shows it.
C27_ErrorImpliesNotLoading ==
    /\ error # Null => loading = FALSE
    /\ OverlayText \in {Null, Message("Loading map and projects...")}

\* The city block of App.jsx has set the error and the projects have
\* loaded since.
C27_Witness ==
    /\ variant = "App.jsx" /\ error = Message("Error initializing map")
    /\ projectPc = "done" /\ allMarkers # {} /\ loading = FALSE

---------------------------------------------------------------------------
(* Properties of the district layers of part_000 (SpecDistricts).          *)

\* The districts of miami_cities.geojson.
DistrictsOfFile ==
    IF districtsResponse.outcome = "ok"
    THEN {districtsResponse.ids[i] : i \in 1 .. Len(districtsResponse.ids)}
    ELSE {}

\* C29: in part_000, when the load handler of the map has run, a source, a
\* fill layer and an outline layer exist for every district of
\* miami_cities.geojson, in every interleaving of the district fetch with
\* the load event.
C29_DistrictLayersAfterLoad ==
    (variant = "part_000" /\ projectPc \in {"fetch", "done"}) =>
        \A districtId \in DistrictsOfFile :
            /\ districtId \in districtSources
            /\ <<districtId, "fill">> \in DOMAIN districtLayers
            /\ <<districtId, "outline">> \in DOMAIN districtLayers

\* The click listeners on the fill layer of a district.
ClickListeners(districtId) ==
    IF <<"click", districtId>> \in DOMAIN districtListeners
    THEN districtListeners[<<"click", districtId>>] ELSE 0

\* C30: in part_000, after any number of map-style toggles each district
\* fill layer has exactly one click listener, and one click on a district
\* calls zoomToDistrict exactly once.
C30_OneClickListener ==
    variant = "part_000" =>
        /\ \A key \in DOMAIN districtLayers :
               key[2] = "fill" => ClickListeners(key[1]) = 1
        /\ zoomCalls <= 1


(***************************************************************************)
(* Properties of the census controls of App.jsx (SpecHover, SpecUi)        *)
(***************************************************************************)

\* The features of the source whose feature state has hover = true.
HoveredFeatures ==
    {feature \in 1 .. Len(SourceFeatures) : SourceFeatures[feature].id \in featureState}

\* C22: after any sequence of mousemove, mouseleave, view-change and
\* visibility-toggle events at most one census feature has hover = true,
\* it is the feature whose identifier hoveredCensusIdRef holds, and no
\* feature is hovered when the ref is null.
C22_HoverIsSingleValued ==
    /\ Cardinality(HoveredFeatures) <= 1
    /\ \A feature \in HoveredFeatures : SourceFeatures[feature].id = hoveredCensusIdRef
    /\ hoveredCensusIdRef = Null => HoveredFeatures = {}


\* The census layers are on the map.
CensusLayersExist == CensusLayerIds \subseteq DOMAIN censusLayers

\* The effects of the last user action have run: the render is the one of
\* the states as they are and no effect on the statistics is pending.
EffectsHaveRun == rendered = ViewDependencies /\ ~statsEffect

\* C23: once the census layers exist and the effects of the last user
\* action have run, the risk fill layer is visible iff censusVisible and
\* the view is 'risk', the PRED3_PE fill layer iff censusVisible and the
\* view is 'pred3pe', the outline iff censusVisible; the two fill layers
\* are never visible together.
C23_VisibilityFollowsState ==
    (CensusLayersExist /\ EffectsHaveRun) =>
        /\ censusLayers["census-tracts-risk"].visibility = "visible"
               <=> (censusVisible /\ activeCensusView = "risk")
        /\ censusLayers["census-tracts-pred3pe"].visibility = "visible"
               <=> (censusVisible /\ activeCensusView = "pred3pe")
        /\ censusLayers["census-tracts-outline"].visibility = "visible"
               <=> censusVisible
        /\ ~(/\ censusLayers["census-tracts-risk"].visibility = "visible"
             /\ censusLayers["census-tracts-pred3pe"].visibility = "visible")

\* The layers have come back after a change of map style with the view
\* 'pred3pe' chosen, and the effects have run.
C23_Witness ==
    /\ CensusLayersExist /\ EffectsHaveRun
    /\ isSatelliteView /\ styledataOnce = 0
    /\ activeCensusView = "pred3pe" /\ censusVisible
    /\ censusLayers["census-tracts-pred3pe"].visibility = "visible"


\* Every district has its fill and outline layer on the map, visible.
DistrictLayersVisible ==
    \A key \in districtsRef \X {"fill", "outline"} :
        key \in DOMAIN districtLayers /\ districtLayers[key] = "visible"

\* C24: in App.jsx, after any sequence of handleCensusVisibilityToggle
\* calls (two calls before a render included), the city district layers
\* are visible iff censusVisible is false.
C24_CityXorCensus ==
    (variant = "App.jsx" /\ districtsRef # {}) =>
        (DistrictLayersVisible <=> ~censusVisible)


\* addCensusSourceAndLayers has run to its end at least once.
CensusLayersAdded == censusEventsBoundRef

\* C25: however many times addCensusSourceAndLayers runs, each of the
\* click, mouseenter, mousemove and mouseleave handlers is registered
\* exactly once per census fill layer, and the map never reports the
\* source or a layer added while present.
C25_HandlersBoundOnce ==
    /\ \A key \in DOMAIN censusListeners : censusListeners[key] = 1
    /\ CensusLayersAdded =>
           DOMAIN censusListeners = CensusEventTypes \X CensusFillLayerIds
    /\ ~CensusLayersAdded => censusListeners = NoListeners
    /\ \A complaint \in mapErrors : complaint.error # "exists"

\* addCensusSourceAndLayers has run for the classification, for the effect
\* on the statistics, for a change of view and of visibility and after a
\* change of map style.
C25_Witness ==
    /\ CensusLayersAdded /\ EffectsHaveRun /\ rendered.censusLayersReady
    /\ isSatelliteView /\ styledataOnce = 0
    /\ activeCensusView = "pred3pe" /\ ~censusVisible
    /\ CensusLayersExist
    /\ DOMAIN censusListeners = CensusEventTypes \X CensusFillLayerIds

===========================================================================
